---- MODULE Spec2Model ----
(***************************************************************************)
(* Model of the Wordle result analyzer of the WhatsApp bot                 *)
(* (src/wordleAnalyzer.js), of the bot's message and connection handlers   *)
(* (src/index.js) and of the spreadsheet store (src/googleSheetsDB.js).    *)
(* A handler is a task that is resumed at each await with either outcome   *)
(* of the call it waits for.                                               *)
(*                                                                         *)
(* A text is a sequence of code points.  ASCII characters are the one      *)
(* character strings "W", "1", " ", "\n"...; the five grid symbols are     *)
(* "black" (U+2B1B), "white" (U+2B1C), "yellow" (U+1F7E8), "green"         *)
(* (U+1F7E9), "blue" (U+1F7E6); "vs16" is the variation selector U+FE0F    *)
(* and "smile" an emoji outside the grid set (U+1F600).  Offsets kept by   *)
(* the JavaScript regular expression object (lastIndex) count UTF-16 code  *)
(* units, so a code point has a width of one or two units.                 *)
(***************************************************************************)
EXTENDS Integers, Sequences, FiniteSets, TLC

VARIABLES lastIndex, call, targetGroupId, groupMemberCount, groupStats,
          dailySubmissions, db, sent, tasks, timers, now, startup,
          failures, utcOffset

botVars == <<targetGroupId, groupMemberCount, groupStats, dailySubmissions,
             db, sent, tasks, timers, now, startup, failures, utcOffset>>

vars == <<lastIndex, call, botVars>>

(***************************************************************************)
(* Characters                                                              *)
(***************************************************************************)
GridSymbols == {"black", "white", "yellow", "green", "blue"}

Astral == {"yellow", "green", "blue", "smile", "tone"}

Width(c) == IF c \in Astral THEN 2 ELSE 1

RECURSIVE UnitLen(_)
UnitLen(s) == IF s = <<>> THEN 0 ELSE Width(Head(s)) + UnitLen(Tail(s))

Digits == {"0", "1", "2", "3", "4", "5", "6", "7", "8", "9"}

DigitVal(c) ==
    CASE c = "0" -> 0 [] c = "1" -> 1 [] c = "2" -> 2 [] c = "3" -> 3
      [] c = "4" -> 4 [] c = "5" -> 5 [] c = "6" -> 6 [] c = "7" -> 7
      [] c = "8" -> 8 [] c = "9" -> 9

\* \s of the header pattern, on the characters of the model's alphabet
IsSpace(c) == c \in {" ", "\n", "\t"}

\* Canonicalize of a case-insensitive (/i) match: the upper-case letter
Canon(c) ==
    CASE c = "w" -> "W" [] c = "o" -> "O" [] c = "r" -> "R" [] c = "d" -> "D"
      [] c = "l" -> "L" [] c = "e" -> "E" [] c = "x" -> "X"
      [] OTHER -> c

NaN == 0 - 1

null == [isNull |-> TRUE]

(***************************************************************************)
(* this.wordlePattern, case-insensitive and not global: the word Wordle,   *)
(* whitespace, 1 to 4 digits followed by any number of groups of a comma   *)
(* and 3 digits (capture 1), whitespace, one of 1-6 or X (capture 2),      *)
(* "/6".  Whitespace, digits and "," are disjoint classes, so every        *)
(* greedy quantifier of the pattern can only succeed with its longest      *)
(* match: the scanner below tries each start offset from the left and      *)
(* follows the pattern without backtracking.                               *)
(***************************************************************************)
At(s, i) == IF i >= 1 /\ i <= Len(s) THEN s[i] ELSE "eof"

RECURSIVE SkipSpaces(_, _)
SkipSpaces(s, i) == IF IsSpace(At(s, i)) THEN SkipSpaces(s, i + 1) ELSE i

RECURSIVE SkipDigits(_, _)
SkipDigits(s, i) == IF At(s, i) \in Digits THEN SkipDigits(s, i + 1) ELSE i

\* (?:,\d{3})* from offset i: the offset after the last complete group
RECURSIVE SkipGroups(_, _)
SkipGroups(s, i) ==
    IF /\ At(s, i) = ","
       /\ At(s, i + 1) \in Digits
       /\ At(s, i + 2) \in Digits
       /\ At(s, i + 3) \in Digits
    THEN SkipGroups(s, i + 4)
    ELSE i

WordleLiteral == <<"W", "O", "R", "D", "L", "E">>

\* the match of wordlePattern that starts at offset i, or null
MatchAt(s, i) ==
    IF \E k \in 1..6 : Canon(At(s, i + k - 1)) # WordleLiteral[k] THEN null
    ELSE
    LET a == SkipSpaces(s, i + 6)
        b == SkipDigits(s, a)
        c == SkipGroups(s, b)
        d == SkipSpaces(s, c)
    IN  IF /\ a > i + 6
           /\ b - a >= 1
           /\ b - a <= 4
           /\ d > c
           /\ Canon(At(s, d)) \in {"1", "2", "3", "4", "5", "6", "X"}
           /\ At(s, d + 1) = "/"
           /\ At(s, d + 2) = "6"
        THEN [isNull |-> FALSE, index |-> i,
              g1 |-> SubSeq(s, a, c - 1), g2 |-> s[d]]
        ELSE null

\* text.match(this.wordlePattern): the leftmost match, or null
RECURSIVE ExecFrom(_, _)
ExecFrom(s, i) ==
    IF i > Len(s) THEN null
    ELSE LET m == MatchAt(s, i)
         IN  IF m.isNull THEN ExecFrom(s, i + 1) ELSE m

MatchHeader(s) == ExecFrom(s, 1)

(***************************************************************************)
(* this.wordleEmojiPattern, global and unicode: RegExp.test                 *)
(* starts at lastIndex and leaves lastIndex behind.  With the u flag the   *)
(* search starts at the code point that holds code unit lastIndex.         *)
(***************************************************************************)
\* the first offset >= i of a grid symbol in s, or 0
RECURSIVE FirstGridFrom(_, _)
FirstGridFrom(s, i) ==
    IF i > Len(s) THEN 0
    ELSE IF s[i] \in GridSymbols THEN i ELSE FirstGridFrom(s, i + 1)

\* the code point offset (1-based) whose code units cover unit offset u,
\* Len(s) + 1 when u is the end of the text
RECURSIVE PointAt(_, _, _, _)
PointAt(s, u, i, start) ==
    IF i > Len(s) THEN i
    ELSE IF u < start + Width(s[i]) THEN i
    ELSE PointAt(s, u, i + 1, start + Width(s[i]))

\* wordleEmojiPattern.test(s) with the pattern's lastIndex at li:
\* the answer and the lastIndex it leaves
EmojiTest(s, li) ==
    IF li > UnitLen(s) THEN [found |-> FALSE, lastIndex |-> 0]
    ELSE LET q == FirstGridFrom(s, PointAt(s, li, 1, 0))
         IN  IF q = 0 THEN [found |-> FALSE, lastIndex |-> 0]
             ELSE [found |-> TRUE, lastIndex |-> UnitLen(SubSeq(s, 1, q))]

\* wordlePattern.test(text): not global, keeps no offset
HeaderTest(s) == ~MatchHeader(s).isNull

(***************************************************************************)
(* extractEmojisFromLine, calculateScore, parseWordleResult                *)
(***************************************************************************)
\* text.split('\n')
RECURSIVE SplitFrom(_, _, _)
SplitFrom(s, i, cur) ==
    IF i > Len(s) THEN <<cur>>
    ELSE IF s[i] = "\n" THEN <<cur>> \o SplitFrom(s, i + 1, <<>>)
    ELSE SplitFrom(s, i + 1, Append(cur, s[i]))

Split(s) == SplitFrom(s, 1, <<>>)

IsGridSymbol(c) == c \in GridSymbols

\* [...line.matchAll(this.wordleEmojiPattern)].map(match => match[0]),
\* after lastIndex was reset to 0
extractEmojisFromLine(line) == SelectSeq(line, IsGridSymbol)

\* variants of the tables with one entry changed
baseScoresFailedMut ==
    [a \in {"1", "2", "3", "4", "5", "6", "X"} |->
        CASE a = "1" -> 600 [] a = "2" -> 500 [] a = "3" -> 400
          [] a = "4" -> 300 [] a = "5" -> 200 [] a = "6" -> 100
          [] a = "X" -> 50]

baseScoresGapMut ==
    [a \in {"1", "2", "3", "4", "5", "6", "X"} |->
        CASE a = "1" -> 600 [] a = "2" -> 500 [] a = "3" -> 400
          [] a = "4" -> 300 [] a = "5" -> 250 [] a = "6" -> 100
          [] a = "X" -> 0]

baseScores ==
    [a \in {"1", "2", "3", "4", "5", "6", "X"} |->
        CASE a = "1" -> 600 [] a = "2" -> 500 [] a = "3" -> 400
          [] a = "4" -> 300 [] a = "5" -> 200 [] a = "6" -> 100
          [] a = "X" -> 0]

\* a green symbol worth twenty points
emojiPointsGreenTwentyMut ==
    [e \in GridSymbols |->
        CASE e = "green" -> 20 [] e = "yellow" -> 1 [] e = "black" -> 0
          [] e = "white" -> 0 [] e = "blue" -> 0]

emojiPointsBlueMut ==
    [e \in GridSymbols |->
        CASE e = "green" -> 2 [] e = "yellow" -> 1 [] e = "black" -> 0
          [] e = "white" -> 0 [] e = "blue" -> 1]

emojiPoints ==
    [e \in GridSymbols |->
        CASE e = "green" -> 2 [] e = "yellow" -> 1 [] e = "black" -> 0
          [] e = "white" -> 0 [] e = "blue" -> 0]

\* table[key] || 0
LookupOrZero(table, key) == IF key \in DOMAIN table THEN table[key] ELSE 0

RECURSIVE LinePoints(_)
LinePoints(line) ==
    IF line = <<>> THEN 0
    ELSE LookupOrZero(emojiPoints, Head(line)) + LinePoints(Tail(line))

RECURSIVE PatternPoints(_)
PatternPoints(pattern) ==
    IF pattern = <<>> THEN 0
    ELSE LinePoints(Head(pattern)) + PatternPoints(Tail(pattern))

calculateScore(attemptsStr, pattern) ==
    LET baseScore == LookupOrZero(baseScores, attemptsStr)
        points == PatternPoints(pattern)
    IN  [baseScore |-> baseScore, emojiPoints |-> points,
         totalScore |-> baseScore + points]

\* match[1].replace(/,/g, '')
NotComma(c) == c # ","

\* a replace without the g flag removes the first comma only; here: none
RemoveCommasMut(s) == s

RemoveCommas(s) == SelectSeq(s, NotComma)

\* parseInt of a string: the value of its leading decimal digits, NaN if none
RECURSIVE DigitsValue(_, _)
DigitsValue(s, acc) ==
    IF s = <<>> \/ Head(s) \notin Digits THEN acc
    ELSE DigitsValue(Tail(s), 10 * acc + DigitVal(Head(s)))

ParseInt(s) ==
    IF s = <<>> \/ Head(s) \notin Digits THEN NaN ELSE DigitsValue(s, 0)

\* the loop with a test "at least 5" for "exactly 5"
RECURSIVE PatternLinesAtLeastMut(_)
PatternLinesAtLeastMut(lines) ==
    IF lines = <<>> THEN <<>>
    ELSE LET emojis == extractEmojisFromLine(Head(lines))
         IN  (IF Len(emojis) >= 5 THEN <<emojis>> ELSE <<>>)
                 \o PatternLinesAtLeastMut(Tail(lines))

\* the loop over the lines: the lines with exactly 5 symbols, joined
RECURSIVE PatternLines(_)
PatternLines(lines) ==
    IF lines = <<>> THEN <<>>
    ELSE LET emojis == extractEmojisFromLine(Head(lines))
         IN  (IF Len(emojis) = 5 THEN <<emojis>> ELSE <<>>)
                 \o PatternLines(Tail(lines))

parseWordleResult(text) ==
    LET match == MatchHeader(text)
    IN  IF match.isNull THEN null
        ELSE
        LET gameNumber == RemoveCommas(match.g1)
            attemptsStr == match.g2
            attempts == IF attemptsStr = "X" THEN 7 ELSE ParseInt(<<attemptsStr>>)
            solved == attemptsStr # "X"
            patternLines == PatternLines(Split(text))
        IN  IF Len(patternLines) = 0 THEN null
            ELSE [isNull |-> FALSE,
                  gameNumber |-> ParseInt(gameNumber),
                  attempts |-> IF solved THEN attempts ELSE 6,
                  actualAttempts |-> attemptsStr,
                  solved |-> solved,
                  pattern |-> patternLines,
                  score |-> calculateScore(attemptsStr, patternLines),
                  rawText |-> text]

(***************************************************************************)
(* getPlayerStats.  A quotient the code computes with "/" is kept as the    *)
(* exact fraction [num, den]; a sum that met NaN is NaN.                    *)
(***************************************************************************)
Ratio(n, d) == [num |-> n, den |-> d]

ZeroRatio == Ratio(0, 1)

\* a + b of numbers
NumAdd(a, b) == IF a = NaN \/ b = NaN THEN NaN ELSE a + b

\* the property key a number is converted to when it indexes an object
NumberKey(n) ==
    CASE n = 1 -> "1" [] n = 2 -> "2" [] n = 3 -> "3" [] n = 4 -> "4"
      [] n = 5 -> "5" [] n = 6 -> "6" [] n = 7 -> "7" [] OTHER -> "NaN"

Buckets == {"1", "2", "3", "4", "5", "6", "X"}

NoBuckets == [k \in {} |-> 0]

\* distribution[key]++ : a missing key reads undefined, and undefined + 1
\* is NaN
Increment(distribution, key) ==
    IF key \in DOMAIN distribution
    THEN [distribution EXCEPT ![key] = NumAdd(distribution[key], 1)]
    ELSE [k \in DOMAIN distribution \cup {key} |->
             IF k = key THEN NaN ELSE distribution[k]]

IsSolved(r) == r.solved

\* the forEach over the results: the distribution
RECURSIVE Distribution(_, _)
Distribution(results, distribution) ==
    IF results = <<>> THEN distribution
    ELSE Distribution(Tail(results),
             Increment(distribution,
                 IF Head(results).solved
                 THEN NumberKey(Head(results).attempts)
                 ELSE "X"))

\* the total of the solved results only
RECURSIVE SumTotalScoreSolvedMut(_)
SumTotalScoreSolvedMut(results) ==
    IF results = <<>> THEN 0
    ELSE (IF Head(results).solved THEN Head(results).score.totalScore ELSE 0)
             + SumTotalScoreSolvedMut(Tail(results))

\* the forEach over the results: totalScore
RECURSIVE SumTotalScore(_)
SumTotalScore(results) ==
    IF results = <<>> THEN 0
    ELSE Head(results).score.totalScore + SumTotalScore(Tail(results))

\* solved.reduce((sum, r) => sum + r.attempts, 0)
RECURSIVE SumAttempts(_, _)
SumAttempts(results, sum) ==
    IF results = <<>> THEN sum
    ELSE SumAttempts(Tail(results), NumAdd(sum, Head(results).attempts))

\* the average taken over all results, the unsolved ones included
AverageAttemptsAllMut(results, solved) ==
    Ratio(SumAttempts(results, 0), Len(results))

\* solved.length > 0 ? solved.reduce(...) / solved.length : 0
AverageAttempts(results, solved) ==
    IF Len(solved) > 0
    THEN Ratio(SumAttempts(solved, 0), Len(solved))
    ELSE ZeroRatio

\* the argument is [isNull |-> TRUE] for an absent sequence and
\* [isNull |-> FALSE, items |-> the sequence] otherwise
getPlayerStats(arg) ==
    IF arg.isNull \/ Len(arg.items) = 0
    THEN [totalGames |-> 0, solvedGames |-> 0, solveRate |-> ZeroRatio,
          averageAttempts |-> ZeroRatio, averageScore |-> ZeroRatio,
          totalScore |-> 0, distribution |-> NoBuckets]
    ELSE
    LET results == arg.items
        solved == SelectSeq(results, IsSolved)
        totalScore == SumTotalScore(results)
    IN  [totalGames |-> Len(results),
         solvedGames |-> Len(solved),
         solveRate |-> Ratio(100 * Len(solved), Len(results)),
         averageAttempts |-> AverageAttempts(results, solved),
         averageScore |-> Ratio(totalScore, Len(results)),
         totalScore |-> totalScore,
         distribution |-> Distribution(results, [k \in Buckets |-> 0])]

\* the argument after the call: filter builds a new array, the callbacks
\* of forEach and reduce assign to distribution, totalScore and sum only
resultsAfterStats(arg) == arg

(***************************************************************************)
(* Leaderboards.  Array.prototype.sort is stable: with a comparator that    *)
(* compares numeric keys, the element at input position i ends behind the   *)
(* elements that compare before it and behind the equal elements that       *)
(* precede it in the input.                                                 *)
(***************************************************************************)
Sort(seq, Cmp(_, _)) ==
    LET pos(i) == 1 + Cardinality({j \in DOMAIN seq :
                         \/ Cmp(seq[j], seq[i]) < 0
                         \/ Cmp(seq[j], seq[i]) = 0 /\ j < i})
    IN  [p \in DOMAIN seq |-> seq[CHOOSE i \in DOMAIN seq : pos(i) = p]]

\* the comparator with the total score as its only key
CompareGameTotalOnlyMut(a, b) == b.score.totalScore - a.score.totalScore

\* the comparator of generateGameLeaderboard
CompareGame(a, b) ==
    IF b.score.totalScore # a.score.totalScore
    THEN b.score.totalScore - a.score.totalScore
    ELSE b.score.baseScore - a.score.baseScore

\* the rank taken as the index itself
RankFromZeroMut(index) == index

\* const rank = index + 1, for the 0-based index of forEach
Rank(index) == index + 1

Medal(rank) ==
    CASE rank = 1 -> "gold" [] rank = 2 -> "silver" [] rank = 3 -> "bronze"
      [] OTHER -> <<rank, ".">>

\* result.solved ? `${result.attempts}/6` : 'X/6'
AttemptsLabel(solved, attempts) ==
    IF solved THEN <<attempts, "/6">> ELSE <<"X", "/6">>

\* the three lines the forEach adds for the element at 1-based position p
GameEntry(result, p) ==
    [rank |-> Rank(p - 1),
     medal |-> Medal(Rank(p - 1)),
     player |-> result.player,
     attempts |-> AttemptsLabel(result.solved, result.attempts),
     totalScore |-> result.score.totalScore,
     baseScore |-> result.score.baseScore,
     emojiPoints |-> result.score.emojiPoints]

NoResultsYet == [text |-> "No results for this game yet!"]

\* the returned text, and the caller's array as the in-place sort leaves it
generateGameLeaderboard(gameResults) ==
    IF gameResults.isNull \/ Len(gameResults.items) = 0
    THEN [value |-> NoResultsYet, gameResults |-> gameResults]
    ELSE
    LET sortedResults == Sort(gameResults.items, CompareGame)
    IN  [value |-> [title |-> sortedResults[1].gameNumber,
                    entries |-> [p \in DOMAIN sortedResults |->
                                    GameEntry(sortedResults[p], p)]],
         gameResults |-> [isNull |-> FALSE, items |-> sortedResults]]

(***************************************************************************)
(* Inputs: the message texts the operations are called with                *)
(***************************************************************************)
MaxApiLines == 1

MaxGridLines == 2

MaxRows == 10

RECURSIVE Repeat(_, _)
Repeat(x, n) == IF n = 0 THEN <<>> ELSE <<x>> \o Repeat(x, n - 1)

RECURSIVE JoinLines(_)
JoinLines(lines) ==
    IF Len(lines) = 0 THEN <<>>
    ELSE IF Len(lines) = 1 THEN Head(lines)
    ELSE Head(lines) \o <<"\n">> \o JoinLines(Tail(lines))

\* all sequences of at most n elements of S
SeqsUpTo(S, n) == UNION {[1..k -> S] : k \in 0..n}

WordleWord == <<"W", "o", "r", "d", "l", "e">>

WordleWordOtherCase == <<"w", "O", "R", "D", "L", "E">>

\* number strings as they are typed, with the number they denote
\* (val = NaN: not a number the header pattern accepts)
Numbers ==
    { [str |-> <<"7">>, val |-> 7],
      [str |-> <<"1", "2", "3", "4">>, val |-> 1234],
      [str |-> <<"1", ",", "2", "3", "4">>, val |-> 1234],
      [str |-> <<"2", "1", ",", "0", "4", "2">>, val |-> 21042],
      [str |-> <<"1", "2", "3", "4", "5">>, val |-> NaN],
      [str |-> <<"1", ",", "2", "3">>, val |-> NaN] }

ValidNumbers == {n \in Numbers : n.val # NaN}

DigitLabels == {"1", "2", "3", "4", "5", "6"}

Labels == DigitLabels \cup {"X", "x", "7"}

Header(word, num, label) ==
    word \o <<" ">> \o num \o <<" ">> \o <<label, "/", "6">>

RowGreen == Repeat("green", 5)

RowBlack == Repeat("black", 5)

RowMixed == <<"black", "yellow", "white", "green", "blue">>

RowFour == Repeat("yellow", 4)

RowSix == Repeat("green", 6)

Caption == <<"o", "k">>

\* the message of the end-to-end example: header, blank line, four rows
ExampleRows ==
    << <<"black", "yellow", "black", "black", "black">>,
       <<"black", "black", "green", "yellow", "black">>,
       <<"yellow", "green", "green", "black", "green">>,
       RowGreen >>

ExampleText ==
    JoinLines(<<Header(WordleWord, <<"1", ",", "2", "3", "4">>, "4"), <<>>>>
                  \o ExampleRows)

MkText(header, body) == JoinLines(<<header>> \o body)

ApiHeaders ==
    {Header(WordleWord, n.str, l) : n \in Numbers, l \in {"4", "X"}}
        \cup {Header(WordleWord, <<"7">>, l) : l \in Labels}
        \cup {Header(WordleWordOtherCase, <<"7">>, l) : l \in {"4", "x"}}

ApiBodies == SeqsUpTo({RowMixed, Caption}, MaxApiLines)

ApiTexts ==
    {MkText(h, b) : h \in ApiHeaders, b \in ApiBodies}
        \cup {RowMixed, Caption}

\* lines of a message body: two kinds of line with exactly 5 grid symbols
\* (one of them with a caption around the symbols), a line with 4, a line
\* with 6, a caption and a blank line
RowCaptioned == <<"a">> \o RowGreen \o <<"!">>

Blank == <<>>

GridLines == {RowMixed, RowCaptioned, RowFour, RowSix, Caption, Blank}

GridBodies == SeqsUpTo(GridLines, MaxGridLines)

GridHeaders == {Header(WordleWord, <<"7">>, l) : l \in {"3", "X"}}

GridTexts ==
    {MkText(h, b) : h \in GridHeaders, b \in GridBodies} \cup {ExampleText}

\* the emoji variation selector and a skin-tone modifier
Modifiers == {"vs16", "tone"}

\* rows of 5 grid symbols of which every one, the first or the last carries
\* a modifier
RowSelectors ==
    <<"black", "vs16", "yellow", "vs16", "white", "vs16", "green", "vs16",
      "blue", "vs16">>

RowOneSelector == <<"black", "vs16", "green", "green", "green", "green">>

RowToned == <<"green", "green", "green", "green", "yellow", "tone">>

MarkedLines == {RowMixed, RowSelectors, RowOneSelector, RowToned, Caption}

MaxMarkedLines == 3

MarkedTexts ==
    {MkText(h, b) : h \in GridHeaders, b \in SeqsUpTo(MarkedLines, MaxMarkedLines)}

\* arguments of calculateScore
ScorePatterns ==
    SeqsUpTo({RowMixed, RowFour, Caption}, MaxGridLines) \cup {ExampleRows}

\* messages with up to MaxRows all-green rows, then possibly a black row
LongTexts ==
    {MkText(Header(WordleWord, <<"7">>, l),
            Repeat(RowGreen, k) \o Repeat(RowBlack, j)) :
        l \in {"1", "5", "6", "X", "x"}, k \in 0..MaxRows, j \in 0..1}

MaxResults == 3

\* results of the parser: solved in 1, 4 and 6 attempts, failed, and the
\* result of a header with a lower-case x
StatsTexts ==
    {MkText(Header(WordleWord, <<"7">>, l), <<RowMixed>>) :
        l \in {"1", "4", "6", "X", "x"}}

StatsResults == {parseWordleResult(t) : t \in StatsTexts}

\* arguments of getPlayerStats: an absent sequence, or a sequence of results
StatsArgs ==
    {null} \cup {[isNull |-> FALSE, items |-> rs] :
                    rs \in SeqsUpTo(StatsResults, MaxResults)}

MaxEntries == 3

Players == {"Asha", "Ravi"}

\* a result of the parser with the fields processWordleResult adds
WithPlayer(result, player, date, timestamp) ==
    [isNull |-> FALSE, gameNumber |-> result.gameNumber,
     attempts |-> result.attempts, actualAttempts |-> result.actualAttempts,
     solved |-> result.solved, pattern |-> result.pattern,
     score |-> result.score, rawText |-> result.rawText,
     player |-> player, date |-> date, timestamp |-> timestamp]

\* results of one game: 5/6 with a black row (200 + 0), 6/6 with ten green
\* rows (100 + 100), 4/6 with a mixed row (300 + 3), X/6 with a green row
BoardTexts ==
    { MkText(Header(WordleWord, <<"7">>, "5"), <<RowBlack>>),
      MkText(Header(WordleWord, <<"7">>, "6"), Repeat(RowGreen, MaxRows)),
      MkText(Header(WordleWord, <<"7">>, "4"), <<RowMixed>>),
      MkText(Header(WordleWord, <<"7">>, "X"), <<RowGreen>>) }

BoardResults ==
    {WithPlayer(parseWordleResult(MkText(Header(WordleWord, <<"7">>, "5"),
                                         <<RowBlack>>)),
                player, "2025-01-07", 1) : player \in Players}
    \cup {WithPlayer(parseWordleResult(t), "Asha", "2025-01-07", 1) :
             t \in BoardTexts}

\* arguments of generateGameLeaderboard
BoardArgs ==
    {null} \cup {[isNull |-> FALSE, items |-> rs] :
                    rs \in SeqsUpTo(BoardResults, MaxEntries)}

(***************************************************************************)
(* The analyzer's operations.  lastIndex is the lastIndex of               *)
(* this.wordleEmojiPattern, the only field of the analyzer that changes;   *)
(* call records the last call made and what it returned.                   *)
(***************************************************************************)
Init ==
    /\ lastIndex = 0
    /\ call = [op |-> "new"]
    /\ targetGroupId = <<>>
    /\ groupMemberCount = 0
    /\ groupStats = <<>>
    /\ dailySubmissions = <<>>
    /\ db = [available |-> FALSE, DailyResults |-> <<>>,
             TotalScores |-> <<>>, GroupMembers |-> <<>>,
             TournamentResults |-> <<>>]
    /\ sent = <<>>
    /\ tasks = <<>>
    /\ timers = <<>>
    /\ now = 1
    /\ startup = [starts |-> 1, initialized |-> 0]
    /\ failures = 0
    /\ utcOffset = 0

IsWordleResult(text) ==
    LET header == HeaderTest(text)
        emoji == EmojiTest(text, lastIndex)
    IN  /\ lastIndex' = IF header THEN emoji.lastIndex ELSE lastIndex
        /\ call' = [op |-> "isWordleResult", text |-> text,
                    value |-> header /\ emoji.found]
        /\ UNCHANGED botVars

ParseWordleResult(text) ==
    /\ lastIndex' = IF HeaderTest(text) THEN 0 ELSE lastIndex
    /\ call' = [op |-> "parseWordleResult", text |-> text,
                value |-> parseWordleResult(text)]
    /\ UNCHANGED botVars

CalculateScore(attemptsStr, pattern) ==
    /\ UNCHANGED lastIndex
    /\ call' = [op |-> "calculateScore", attemptsStr |-> attemptsStr,
                pattern |-> pattern,
                value |-> calculateScore(attemptsStr, pattern)]
    /\ UNCHANGED botVars

\* the statistics grow with those of the call before
GetPlayerStatsSharedMut(arg) ==
    /\ UNCHANGED lastIndex
    /\ call' = [op |-> "getPlayerStats", arg |-> arg,
                argAfter |-> resultsAfterStats(arg),
                value |-> [getPlayerStats(arg) EXCEPT
                              !.totalGames =
                                  IF call.op = "getPlayerStats"
                                  THEN (@ + call.value.totalGames) % 7
                                  ELSE @]]
    /\ UNCHANGED botVars

GetPlayerStats(arg) ==
    /\ UNCHANGED lastIndex
    /\ call' = [op |-> "getPlayerStats", arg |-> arg,
                argAfter |-> resultsAfterStats(arg),
                value |-> getPlayerStats(arg)]
    /\ UNCHANGED botVars

GenerateGameLeaderboard(gameResults) ==
    LET out == generateGameLeaderboard(gameResults)
    IN  /\ UNCHANGED lastIndex
        /\ call' = [op |-> "generateGameLeaderboard", arg |-> gameResults,
                    argAfter |-> out.gameResults, value |-> out.value]
        /\ UNCHANGED botVars

Next ==
    \E text \in ApiTexts :
        \/ IsWordleResult(text)
        \/ ParseWordleResult(text)

Spec == Init /\ [][Next]_vars

\* parsing and scoring of message bodies
NextGrid ==
    \/ \E text \in GridTexts : ParseWordleResult(text)
    \/ \E attemptsStr \in Labels, pattern \in ScorePatterns :
           CalculateScore(attemptsStr, pattern)

SpecGrid == Init /\ [][NextGrid]_vars

\* parsing of messages whose rows carry modifiers
NextMarked == \E text \in MarkedTexts : ParseWordleResult(text)

SpecMarked == Init /\ [][NextMarked]_vars

\* parsing of messages with many rows
NextLong == \E text \in LongTexts : ParseWordleResult(text)

SpecLong == Init /\ [][NextLong]_vars

\* statistics of sequences of results
NextStats == \E arg \in StatsArgs : GetPlayerStats(arg)

SpecStats == Init /\ [][NextStats]_vars

\* game leaderboards of sequences of results
NextBoard == \E gameResults \in BoardArgs : GenerateGameLeaderboard(gameResults)

SpecBoard == Init /\ [][NextBoard]_vars

(***************************************************************************)
(* The bot (src/index.js) and its store (src/googleSheetsDB.js).            *)
(*                                                                         *)
(* An event handler runs without interruption up to an await of a network  *)
(* call (WhatsApp socket, Google Sheets); there it is suspended, and other *)
(* handlers run before it is resumed with the outcome of the call.  A      *)
(* handler in progress is a task: tasks[i].pc names the call it waits for. *)
(* The synchronous code between two awaits is an operator from the bot's   *)
(* state, taken as a record, to the state it leaves.                       *)
(*                                                                         *)
(* A Map is the sequence of its entries [key, value] in insertion order.   *)
(* Chat ids and keys built from them are texts (sequences of characters).  *)
(***************************************************************************)
MapHas(map, key) == \E j \in DOMAIN map : map[j].key = key

MapIndex(map, key) == CHOOSE j \in DOMAIN map : map[j].key = key

MapGet(map, key) == map[MapIndex(map, key)].value

MapSet(map, key, value) ==
    IF MapHas(map, key)
    THEN [map EXCEPT ![MapIndex(map, key)].value = value]
    ELSE Append(map, [key |-> key, value |-> value])

\* s.startsWith(prefix)
StartsWith(s, prefix) ==
    /\ Len(s) >= Len(prefix)
    /\ SubSeq(s, 1, Len(prefix)) = prefix

\* s.endsWith(suffix)
EndsWith(s, suffix) ==
    /\ Len(s) >= Len(suffix)
    /\ SubSeq(s, Len(s) - Len(suffix) + 1, Len(s)) = suffix

\* s.split(sep) for a separator of one character
RECURSIVE SplitOnFrom(_, _, _, _)
SplitOnFrom(s, sep, i, cur) ==
    IF i > Len(s) THEN <<cur>>
    ELSE IF s[i] = sep THEN <<cur>> \o SplitOnFrom(s, sep, i + 1, <<>>)
    ELSE SplitOnFrom(s, sep, i + 1, Append(cur, s[i]))

SplitOn(s, sep) == SplitOnFrom(s, sep, 1, <<>>)

UpperLetters ==
    <<"A", "B", "C", "D", "E", "F", "G", "H", "I", "J", "K", "L", "M",
      "N", "O", "P", "Q", "R", "S", "T", "U", "V", "W", "X", "Y", "Z">>

LowerLetters ==
    <<"a", "b", "c", "d", "e", "f", "g", "h", "i", "j", "k", "l", "m",
      "n", "o", "p", "q", "r", "s", "t", "u", "v", "w", "x", "y", "z">>

\* s.toLowerCase()
ToLowerCase(s) ==
    [k \in DOMAIN s |->
        IF \E n \in DOMAIN UpperLetters : UpperLetters[n] = s[k]
        THEN LowerLetters[CHOOSE n \in DOMAIN UpperLetters : UpperLetters[n] = s[k]]
        ELSE s[k]]

DigitChars == <<"0", "1", "2", "3", "4", "5", "6", "7", "8", "9">>

\* `${n}` for a number n >= 0
RECURSIVE NumberText(_)
NumberText(n) ==
    IF n < 10 THEN <<DigitChars[n + 1]>>
    ELSE NumberText(n \div 10) \o <<DigitChars[(n % 10) + 1]>>

targetGroupName == "Wordlepaglu"

GroupSuffix == <<"@", "g", ".", "u", "s">>

CommandPrefix == <<"!", "w", "o", "r", "d", "l", "e">>

\* `${chatId}-${gameNumber}`
GameKey(chatId, gameNumber) == chatId \o <<"-">> \o NumberText(gameNumber)

\* message.pushName || message.key.participant?.split('@')[0] || 'Unknown'
SenderOf(m) ==
    IF m.pushName # "" THEN m.pushName
    ELSE IF Len(m.participant) > 0 /\ m.participant[1] # "" THEN m.participant[1]
    ELSE "Unknown"

(***************************************************************************)
(* Dates.  A Date object is an instant, counted in minutes from            *)
(* 1970-01-01T00:00Z; the host's local time is utcOffset minutes ahead of  *)
(* UTC.  Days are counted from 1970-01-01 in the Gregorian calendar.       *)
(***************************************************************************)
MinutesPerDay == 1440

\* the day number of the day d of month m (1..12) of year y; d may lie
\* outside the month
DaysFromCivil(y, m, d) ==
    LET yy == IF m <= 2 THEN y - 1 ELSE y
        era == yy \div 400
        yoe == yy - era * 400
        doy == (153 * (IF m > 2 THEN m - 3 ELSE m + 9) + 2) \div 5 + d - 1
        doe == yoe * 365 + yoe \div 4 - yoe \div 100 + doy
    IN  era * 146097 + doe - 719468

\* year, month (1..12) and day of a day number
CivilFromDays(z) ==
    LET zz == z + 719468
        era == zz \div 146097
        doe == zz - era * 146097
        yoe == (doe - doe \div 1460 + doe \div 36524 - doe \div 146096) \div 365
        doy == doe - (365 * yoe + yoe \div 4 - yoe \div 100)
        mp == (5 * doy + 2) \div 153
        m == IF mp < 10 THEN mp + 3 ELSE mp - 9
    IN  [year |-> (yoe + era * 400) + (IF m <= 2 THEN 1 ELSE 0),
         month |-> m,
         day |-> doy - (153 * mp + 2) \div 5 + 1]

\* new Date(year, monthIndex, day): midnight of that day in local time; a
\* month index or a day outside its range carries over
LocalDate(year, monthIndex, day) ==
    IF year = NaN \/ monthIndex = NaN \/ day = NaN THEN NaN
    ELSE (DaysFromCivil(year + monthIndex \div 12, (monthIndex % 12) + 1, 1)
              + day - 1) * MinutesPerDay - utcOffset

\* getFullYear(), getMonth() + 1 and getDate() of a Date
LocalFields(date) == CivilFromDays((date + utcOffset) \div MinutesPerDay)

\* s.padStart(2, '0')
PadStart2(s) == IF Len(s) < 2 THEN <<"0">> \o s ELSE s

\* the text YYYY-MM-DD of a day
DateText(year, month, day) ==
    NumberText(year) \o <<"-">> \o PadStart2(NumberText(month)) \o <<"-">>
        \o PadStart2(NumberText(day))

\* new Date(dateStr) of a text YYYY-MM-DD: midnight of that day in UTC
\* (NaN, the invalid date, for another text)
DateOfText(dateStr) ==
    LET parts == SplitOn(dateStr, "-")
    IN  IF Len(parts) # 3 \/ Len(parts[1]) # 4 \/ Len(parts[2]) # 2
           \/ Len(parts[3]) # 2
           \/ \E k \in 1..3 : \E c \in 1..Len(parts[k]) : parts[k][c] \notin Digits
        THEN NaN
        ELSE LET month == ParseInt(parts[2])
                 day == ParseInt(parts[3])
             IN  IF month \notin 1..12 \/ day \notin 1..31 THEN NaN
                 ELSE DaysFromCivil(ParseInt(parts[1]), month, day) * MinutesPerDay

\* s.replace(c, ''): the first c removed
RECURSIVE RemoveFirst(_, _)
RemoveFirst(s, c) ==
    IF s = <<>> THEN <<>>
    ELSE IF Head(s) = c THEN Tail(s)
    ELSE <<Head(s)>> \o RemoveFirst(Tail(s), c)

\* the half with day 16 as its last day
TournamentInMonthLate16Mut(day) == IF day <= 16 THEN 1 ELSE 2

\* tournamentInMonth of getCurrentTournamentId
TournamentInMonth(day) == IF day <= 15 THEN 1 ELSE 2

\* getCurrentTournamentId(), with the instant new Date() returns
getCurrentTournamentId(date) ==
    LET fields == LocalFields(date)
    IN  NumberText(fields.year) \o <<"-">>
            \o PadStart2(NumberText(fields.month)) \o <<"-", "T">>
            \o NumberText(TournamentInMonth(fields.day))

\* the last day of the month taken for day 30
EndDayThirtyMut(year, monthNum) == 30

\* new Date(parseInt(year), monthNum, 0).getDate()
EndDay(year, monthNum) ==
    IF year = NaN \/ monthNum = NaN THEN NaN
    ELSE LocalFields(LocalDate(year, monthNum, 0)).day

\* the second half starting on day 15
TournamentDatesOverlapMut(year, monthNum, tournamentNum) ==
    LET startDay == IF tournamentNum = 1 THEN 1 ELSE 15
        endDay == IF tournamentNum = 1 THEN 15
                  ELSE EndDay(year, monthNum)
    IN  [threw |-> FALSE,
         startDate |-> IF monthNum = NaN THEN NaN
                       ELSE LocalDate(year, monthNum - 1, startDay),
         endDate |-> IF monthNum = NaN THEN NaN
                     ELSE LocalDate(year, monthNum - 1, endDay)]

\* the two Dates of getTournamentDateRange, of the three parsed numbers
TournamentDates(year, monthNum, tournamentNum) ==
    LET startDay == IF tournamentNum = 1 THEN 1 ELSE 16
        endDay == IF tournamentNum = 1 THEN 15
                  ELSE EndDay(year, monthNum)
    IN  [threw |-> FALSE,
         startDate |-> IF monthNum = NaN THEN NaN
                       ELSE LocalDate(year, monthNum - 1, startDay),
         endDate |-> IF monthNum = NaN THEN NaN
                     ELSE LocalDate(year, monthNum - 1, endDay)]

\* getTournamentDateRange(tournamentId); it throws when the id has fewer
\* than three parts
getTournamentDateRange(tournamentId) ==
    LET parts == SplitOn(tournamentId, "-")
    IN  IF Len(parts) < 3 THEN [threw |-> TRUE]
        ELSE TournamentDates(ParseInt(parts[1]), ParseInt(parts[2]),
                             ParseInt(RemoveFirst(parts[3], "T")))

\* the day the bot runs on: new Date().toLocaleDateString('en-CA')
Today == DateText(2025, 1, 7)

\* new Date() during the run: noon of that day on the host's clock
Clock == LocalDate(2025, 0, 7) + 720

(***************************************************************************)
(* The state of the bot as a record, and the tasks                          *)
(***************************************************************************)
NoGroup == <<>>

NoRows == <<>>

NewTask(kind, m) ==
    [kind |-> kind, m |-> m, pc |-> "start", result |-> null,
     rows |-> NoRows, index |-> 0, game |-> 0, out |-> null,
     caller |-> "none", tournament |-> null]

SetPc(st, i, pc) == [st EXCEPT !.tasks[i].pc = pc]

\* the handler returns: its local variables are gone
Finish(st, i) ==
    [st EXCEPT !.tasks[i] = [NewTask(@.kind, @.m) EXCEPT
                                !.pc = "done", !.result = st.tasks[i].result]]

\* sent[i] holds what the handler tasks[i] has sent, in order
Send(st, i, content) ==
    [st EXCEPT !.sent[i] = Append(@, [chatId |-> st.tasks[i].m.chatId,
                                      content |-> content])]

\* await this.sock.sendMessage(chatId, content): the call is issued
AwaitSend(st, i, pc, content) ==
    [st EXCEPT !.tasks[i].pc = pc, !.tasks[i].out = content]

(***************************************************************************)
(* The store: rows of the three sheets, without their header row.  A cell  *)
(* written with toFixed(1) holds the number of tenths.                     *)
(***************************************************************************)
\* x.toFixed(1) of the quotient num / den >= 0, in tenths
ToFixed1(ratio) ==
    IF ratio.num = NaN THEN NaN
    ELSE (20 * ratio.num + ratio.den) \div (2 * ratio.den)

\* the row saveWordleResult appends to DailyResults
DailyRow(result) ==
    [date |-> result.date, gameNumber |-> result.gameNumber,
     player |-> result.player, attempts |-> result.actualAttempts,
     solved |-> result.solved, baseScore |-> result.score.baseScore,
     emojiPoints |-> result.score.emojiPoints,
     totalScore |-> result.score.totalScore]

\* getPlayerResults: the rows of a player
PlayerRows(rows, player) == SelectSeq(rows, LAMBDA row : row.player = player)

\* getDailyResults: the rows of a game
GameRows(rows, gameNumber) ==
    SelectSeq(rows, LAMBDA row : row.gameNumber = gameNumber)

RECURSIVE SumRowScores(_)
SumRowScores(rows) ==
    IF rows = <<>> THEN 0 ELSE Head(rows).totalScore + SumRowScores(Tail(rows))

\* solved.reduce((sum, r) => sum + parseInt(r.attempts), 0)
RECURSIVE SumRowAttempts(_, _)
SumRowAttempts(rows, sum) ==
    IF rows = <<>> THEN sum
    ELSE SumRowAttempts(Tail(rows),
                        NumAdd(sum, ParseInt(<<Head(rows).attempts>>)))

\* newRow of updateTotalScores, from the rows of the player
TotalsRow(player, results) ==
    LET solved == SelectSeq(results, LAMBDA r : r.solved)
        avgAttempts == IF Len(solved) > 0
                       THEN Ratio(SumRowAttempts(solved, 0), Len(solved))
                       ELSE ZeroRatio
        solveRate == Ratio(100 * Len(solved), Len(results))
    IN  [player |-> player, totalGames |-> Len(results),
         solvedGames |-> Len(solved), solveRate |-> ToFixed1(solveRate),
         avgAttempts |-> ToFixed1(avgAttempts),
         totalScore |-> SumRowScores(results)]

\* existingData.findIndex(row => row[0] === key), 1-based; 0 when absent
FindIndex(rows, Matches(_)) ==
    IF \E j \in DOMAIN rows : Matches(rows[j])
    THEN CHOOSE j \in DOMAIN rows :
             Matches(rows[j]) /\ \A k \in 1..(j - 1) : ~Matches(rows[k])
    ELSE 0

\* appendRow when the index is 0, updateRange of the row at the index
\* otherwise
WriteRow(rows, index, row) ==
    IF index = 0 THEN Append(rows, row)
    ELSE IF index <= Len(rows) THEN [rows EXCEPT ![index] = row]
    ELSE rows

(***************************************************************************)
(* Leaderboards and statistics the bot sends                                *)
(***************************************************************************)
\* the comparator of sendDailyLeaderboard, on rows of DailyResults
CompareDaily(a, b) ==
    IF b.totalScore # a.totalScore
    THEN b.totalScore - a.totalScore
    ELSE b.baseScore - a.baseScore

\* the rows of a game in rank order: solved, attempts label and scores
DailyEntry(row, p) ==
    [rank |-> Rank(p - 1), medal |-> Medal(Rank(p - 1)),
     player |-> row.player,
     attempts |-> AttemptsLabel(row.solved, row.attempts),
     totalScore |-> row.totalScore, baseScore |-> row.baseScore,
     emojiPoints |-> row.emojiPoints]

DailyBoard(dailyResults, gameNumber) ==
    LET sortedResults == Sort(dailyResults, CompareDaily)
    IN  [type |-> "daily", gameNumber |-> gameNumber,
         entries |-> [p \in DOMAIN sortedResults |->
                         DailyEntry(sortedResults[p], p)]]

\* the comparator of getTotalLeaderboard
CompareTotal(a, b) == b.totalScore - a.totalScore

\* getTotalLeaderboard: the rows of TotalScores, sorted
getTotalLeaderboard(rows) == Sort(rows, CompareTotal)

TotalEntry(stats, p) ==
    [rank |-> Rank(p - 1), medal |-> Medal(Rank(p - 1)),
     player |-> stats.player, totalScore |-> stats.totalScore,
     solveRate |-> stats.solveRate, solvedGames |-> stats.solvedGames,
     totalGames |-> stats.totalGames, avgAttempts |-> stats.avgAttempts]

TotalBoard(totalLeaderboard) ==
    [type |-> "total",
     entries |-> [p \in DOMAIN totalLeaderboard |->
                     TotalEntry(totalLeaderboard[p], p)]]

\* the block of sendGroupStats for one player
StatsEntry(player, results) ==
    LET stats == getPlayerStats([isNull |-> FALSE, items |-> results])
    IN  [player |-> player, solvedGames |-> stats.solvedGames,
         totalGames |-> stats.totalGames,
         solveRate |-> ToFixed1(stats.solveRate),
         averageAttempts |-> ToFixed1(stats.averageAttempts),
         totalScore |-> stats.totalScore,
         averageScore |-> ToFixed1(stats.averageScore)]

GroupStatsText(groupData) ==
    [type |-> "stats",
     players |-> [p \in DOMAIN groupData |->
                     StatsEntry(groupData[p].key, groupData[p].value)]]

\* the reply to a result: congratulation with the analysis, or
\* encouragement
ReplyText(result) ==
    IF result.solved
    THEN [type |-> "reply", solved |-> TRUE, sender |-> result.player,
          gameNumber |-> result.gameNumber,
          label |-> result.actualAttempts, score |-> result.score]
    ELSE [type |-> "reply", solved |-> FALSE, sender |-> result.player,
          gameNumber |-> result.gameNumber,
          label |-> "X", score |-> result.score]

\* the party emoji for every result
ReactionAlwaysPartyMut(result, key) ==
    [type |-> "react", text |-> "party", key |-> key]

\* const reactionEmoji = result.solved ? party : sad
Reaction(result, key) ==
    [type |-> "react", text |-> IF result.solved THEN "party" ELSE "sad",
     key |-> key]

(***************************************************************************)
(* The synchronous code of the handlers, from one await to the next        *)
(***************************************************************************)
\* sendTotalLeaderboard up to the read of TotalScores; getTotalLeaderboard
\* returns [] at once when the store is not available
TotalStart(st, i) ==
    IF ~st.db.available THEN Finish(st, i) ELSE SetPc(st, i, "totalRead")

\* sendHelp
HelpStart(st, i) == AwaitSend(st, i, "send", [type |-> "help"])

\* sendGroupStats up to its sendMessage
GroupStatsStart(st, i) ==
    LET chatId == st.tasks[i].m.chatId
    IN  IF ~MapHas(st.groupStats, chatId) \/ Len(MapGet(st.groupStats, chatId)) = 0
        THEN AwaitSend(st, i, "send", [type |-> "noResults"])
        ELSE AwaitSend(st, i, "send",
                       GroupStatsText(MapGet(st.groupStats, chatId)))

RECURSIVE AfterProcess(_, _)

\* the return of sendDailyLeaderboard: to checkForCompleteSubmissions,
\* which arms the timer of the total leaderboard, or to the daily command
DailyDone(st, i) ==
    IF st.tasks[i].caller = "check"
    THEN AfterProcess([st EXCEPT !.timers = Append(@, st.tasks[i].m.chatId)], i)
    ELSE Finish(st, i)

\* sendDailyLeaderboard up to the read of DailyResults
DailyStart(st, i, gameNumber, caller) ==
    LET s1 == [st EXCEPT !.tasks[i].caller = caller,
                         !.tasks[i].game = gameNumber]
    IN  IF ~s1.db.available THEN DailyDone(s1, i)
        ELSE SetPc(s1, i, "dailyRead")

\* the latest game of sendDailyLeaderboardCommand:
\* parseInt(key.split('-')[1]) over the keys of dailySubmissions
RECURSIVE LatestGame(_, _)
LatestGame(entries, latestGame) ==
    IF entries = <<>> THEN latestGame
    ELSE LET parts == SplitOn(Head(entries).key, "-")
             game == IF Len(parts) >= 2 THEN ParseInt(parts[2]) ELSE NaN
         IN  LatestGame(Tail(entries),
                        IF game # NaN /\ game > latestGame THEN game
                        ELSE latestGame)

\* sendDailyLeaderboardCommand(chatId, args[2])
DailyCommandStart(st, i, args) ==
    IF Len(args) < 3 \/ args[3] = <<>>
    THEN LET latestGame == LatestGame(st.dailySubmissions, 0)
         IN  IF latestGame = 0
             THEN AwaitSend(st, i, "send", [type |-> "noDaily"])
             ELSE DailyStart(st, i, latestGame, "command")
    ELSE DailyStart(st, i, ParseInt(args[3]), "command")

\* x.toFixed(2) of a quotient, in hundredths
ToFixed2(ratio) ==
    IF ratio.num = NaN THEN NaN
    ELSE (200 * ratio.num + ratio.den) \div (2 * ratio.den)

\* date.toISOString().split('T')[0]: the day of the instant in UTC
IsoDay(date) ==
    IF date = NaN THEN NaN
    ELSE LET fields == CivilFromDays(date \div MinutesPerDay)
         IN  DateText(fields.year, fields.month, fields.day)

\* the forEach of getTournamentResults over the rows read: the players in
\* the order of their first row inside the range, with their totals; a
\* row is inside when new Date(dateStr) lies between the two Dates
RECURSIVE TournamentData(_, _, _, _)
TournamentData(rows, startDate, endDate, tournamentData) ==
    IF rows = <<>> THEN tournamentData
    ELSE LET row == Head(rows)
             resultDate == DateOfText(row.date)
             inside == /\ resultDate # NaN /\ startDate # NaN /\ endDate # NaN
                       /\ resultDate >= startDate
                       /\ resultDate <= endDate
             score == IF row.totalScore = NaN THEN 0 ELSE row.totalScore
             playerData == IF MapHas(tournamentData, row.player)
                           THEN MapGet(tournamentData, row.player)
                           ELSE [player |-> row.player, totalScore |-> 0,
                                 gamesPlayed |-> 0]
         IN  TournamentData(Tail(rows), startDate, endDate,
                 IF inside
                 THEN MapSet(tournamentData, row.player,
                             [playerData EXCEPT !.totalScore = @ + score,
                                                !.gamesPlayed = @ + 1])
                 ELSE tournamentData)

\* the results of getTournamentResults: the players with their average,
\* sorted by total score
TournamentPlayers(rows, startDate, endDate) ==
    LET tournamentData == TournamentData(rows, startDate, endDate, <<>>)
        results == [k \in DOMAIN tournamentData |->
                       [player |-> tournamentData[k].value.player,
                        totalScore |-> tournamentData[k].value.totalScore,
                        gamesPlayed |-> tournamentData[k].value.gamesPlayed,
                        avgScore |-> Ratio(tournamentData[k].value.totalScore,
                                           tournamentData[k].value.gamesPlayed)]]
    IN  Sort(results, CompareTotal)

\* the values saveTournamentResults writes: the rows of other tournaments
\* it has read, then one row per player
TournamentValues(existingData, tournamentId, results, range) ==
    SelectSeq(existingData, LAMBDA row : row.tournamentId # tournamentId)
        \o [k \in DOMAIN results |->
               [tournamentId |-> tournamentId, player |-> results[k].player,
                totalScore |-> results[k].totalScore,
                gamesPlayed |-> results[k].gamesPlayed,
                avgScore |-> ToFixed2(results[k].avgScore),
                startDate |-> IsoDay(range.startDate),
                endDate |-> IsoDay(range.endDate)]]

\* updateRange of a whole sheet: the values replace the first rows, the
\* rows below them stay
OverwriteRows(rows, values) ==
    values \o SubSeq(rows, Len(values) + 1, Len(rows))

\* sendTournamentLeaderboard after getTournamentResults has returned
TournamentSend(st, i, tournamentResults) ==
    IF Len(tournamentResults) = 0
    THEN AwaitSend(st, i, "send",
                   [type |-> "noTournament",
                    tournamentId |-> st.tasks[i].tournament.tournamentId])
    ELSE AwaitSend(st, i, "send",
                   [type |-> "tournament",
                    tournamentId |-> st.tasks[i].tournament.tournamentId,
                    entries |-> [k \in DOMAIN tournamentResults |->
                                    [rank |-> Rank(k - 1),
                                     medal |-> Medal(Rank(k - 1)),
                                     player |-> tournamentResults[k].player,
                                     totalScore |-> tournamentResults[k].totalScore,
                                     gamesPlayed |-> tournamentResults[k].gamesPlayed,
                                     avgScore |-> ToFixed1(tournamentResults[k].avgScore)]]])

\* sendTournamentLeaderboard from the destructuring of the range up to
\* the read of DailyResults
TournamentRanged(st, i, currentTournamentId, range) ==
    LET s1 == [st EXCEPT !.tasks[i].tournament =
                  [tournamentId |-> currentTournamentId, range |-> range,
                   values |-> NoRows]]
    IN  IF range.threw
        THEN AwaitSend(s1, i, "send", [type |-> "tournamentError"])
        ELSE IF ~s1.db.available THEN TournamentSend(s1, i, NoRows)
        ELSE SetPc(s1, i, "tournamentRead")

\* sendTournamentLeaderboard with currentTournamentId known
TournamentOf(st, i, currentTournamentId) ==
    TournamentRanged(st, i, currentTournamentId,
                     getTournamentDateRange(currentTournamentId))

\* sendTournamentLeaderboard(chatId, args[2]); a missing or empty
\* args[2] stands for the current tournament
TournamentStart(st, i, args) ==
    TournamentOf(st, i, IF Len(args) >= 3 /\ args[3] # <<>> THEN args[3]
                        ELSE getCurrentTournamentId(Clock))

\* handleWordleCommand, for the commands stats, leaderboard, daily,
\* tournament and help (an unknown or missing command word is answered
\* with the help)
CommandStart(st, i) ==
    LET args == SplitOn(st.tasks[i].m.text, " ")
        command == IF Len(args) >= 2 THEN ToLowerCase(args[2]) ELSE <<>>
    IN  CASE command = <<"s", "t", "a", "t", "s">> -> GroupStatsStart(st, i)
          [] command = <<"l", "e", "a", "d", "e", "r", "b", "o", "a", "r", "d">>
                -> TotalStart(st, i)
          [] command = <<"d", "a", "i", "l", "y">> -> DailyCommandStart(st, i, args)
          [] command = <<"t", "o", "u", "r", "n", "a", "m", "e", "n", "t">>
                -> TournamentStart(st, i, args)
          [] OTHER -> HelpStart(st, i)

\* every message taken for a command
AfterProcessAllCommandsMut(st, i) == CommandStart(st, i)

\* handleMessages from the return of processWordleResult: the command check
AfterProcess(st, i) ==
    IF StartsWith(st.tasks[i].m.text, CommandPrefix)
    THEN CommandStart(st, i)
    ELSE Finish(st, i)

\* checkForCompleteSubmissions
CheckForCompleteSubmissions(st, i) ==
    LET result == st.tasks[i].result
        gameKey == GameKey(st.tasks[i].m.chatId, result.gameNumber)
    IN  IF /\ MapHas(st.dailySubmissions, gameKey)
           /\ Cardinality(MapGet(st.dailySubmissions, gameKey)) >= st.groupMemberCount
        THEN DailyStart(st, i, result.gameNumber, "check")
        ELSE AfterProcess(st, i)

\* a repeated submission of a player for a game is not recorded again
AfterSaveOnceMut(st, i) ==
    LET result == st.tasks[i].result
        chatId == st.tasks[i].m.chatId
        sender == result.player
        gameKey == GameKey(chatId, result.gameNumber)
        submitters == IF MapHas(st.dailySubmissions, gameKey)
                      THEN MapGet(st.dailySubmissions, gameKey) ELSE {}
        groupData == IF MapHas(st.groupStats, chatId)
                     THEN MapGet(st.groupStats, chatId) ELSE <<>>
        results == IF MapHas(groupData, sender)
                   THEN MapGet(groupData, sender) ELSE <<>>
        s1 == [st EXCEPT
                 !.dailySubmissions = MapSet(@, gameKey, submitters \cup {sender}),
                 !.groupStats = MapSet(@, chatId,
                                   MapSet(groupData, sender,
                                          IF sender \in submitters THEN results
                                          ELSE Append(results, result)))]
    IN  AwaitSend(s1, i, "react", Reaction(result, i))

\* the result appended twice
AfterSaveTwiceMut(st, i) ==
    LET result == st.tasks[i].result
        chatId == st.tasks[i].m.chatId
        sender == result.player
        groupData == IF MapHas(st.groupStats, chatId)
                     THEN MapGet(st.groupStats, chatId) ELSE <<>>
        results == IF MapHas(groupData, sender)
                   THEN MapGet(groupData, sender) ELSE <<>>
        s1 == [st EXCEPT
                 !.groupStats = MapSet(@, chatId,
                                   MapSet(groupData, sender,
                                          results \o <<result, result>>))]
    IN  AwaitSend(s1, i, "react", Reaction(result, i))

\* processWordleResult from the return of saveWordleResult to the await of
\* the reaction: the submitter is recorded and the result is appended
AfterSave(st, i) ==
    LET result == st.tasks[i].result
        chatId == st.tasks[i].m.chatId
        sender == result.player
        gameKey == GameKey(chatId, result.gameNumber)
        submitters == IF MapHas(st.dailySubmissions, gameKey)
                      THEN MapGet(st.dailySubmissions, gameKey) ELSE {}
        groupData == IF MapHas(st.groupStats, chatId)
                     THEN MapGet(st.groupStats, chatId) ELSE <<>>
        results == IF MapHas(groupData, sender)
                   THEN MapGet(groupData, sender) ELSE <<>>
        s1 == [st EXCEPT
                 !.dailySubmissions = MapSet(@, gameKey, submitters \cup {sender}),
                 !.groupStats = MapSet(@, chatId,
                                   MapSet(groupData, sender, Append(results, result)))]
    IN  AwaitSend(s1, i, "react", Reaction(result, i))

\* updateTotalScores up to the read of the player's rows
UpdateTotalsStart(st, i) ==
    IF ~st.db.available THEN AfterSave(st, i)
    ELSE SetPc(st, i, "saveReadResults")

\* the row is appended whether the store is available or not
SaveStartAlwaysMut(st, i) == SetPc(st, i, "saveAppend")

\* processWordleResult at the call of saveWordleResult; the call returns at
\* once when the store is unavailable
SaveStart(st, i) ==
    IF ~st.db.available THEN AfterSave(st, i)
    ELSE SetPc(st, i, "saveAppend")

\* processWordleResult from the parsed result on: nothing is done without
\* one, else the player, the date and the timestamp are attached
ProcessParsed(st, i, result) ==
    IF result.isNull THEN AfterProcess(st, i)
    ELSE SaveStart([st EXCEPT
                      !.tasks[i].result =
                          WithPlayer(result, SenderOf(st.tasks[i].m), Today,
                                     st.now),
                      !.now = @ + 1], i)

\* processWordleResult up to the call of saveWordleResult
ProcessWordleResult(st, i) ==
    ProcessParsed([st EXCEPT !.lastIndex =
                      IF HeaderTest(st.tasks[i].m.text) THEN 0 ELSE @],
                  i, parseWordleResult(st.tasks[i].m.text))

\* isWordleResult from its two tests: the emoji test runs, and moves
\* lastIndex, only when the header test has succeeded
TestResult(st, header, emoji) ==
    [st |-> [st EXCEPT !.lastIndex = IF header THEN emoji.lastIndex ELSE @],
     value |-> header /\ emoji.found]

\* this.analyzer.isWordleResult(messageText), on the state record
TestWordleResult(st, text) ==
    TestResult(st, HeaderTest(text), EmojiTest(text, st.lastIndex))

\* handleMessages from the second isWordleResult on
Recognised(st, i, test) ==
    IF test.value THEN ProcessWordleResult(test.st, i)
    ELSE AfterProcess(test.st, i)

\* handleMessages for a message of the account itself: it goes on only
\* when it is a result or a command
RecogniseOwn(st, i, own) ==
    IF ~(own.value \/ StartsWith(st.tasks[i].m.text, CommandPrefix))
    THEN Finish(own.st, i)
    ELSE Recognised(own.st, i, TestWordleResult(own.st, st.tasks[i].m.text))

\* handleMessages from the target-group check on
Recognise(st, i) ==
    IF st.tasks[i].m.fromMe
    THEN RecogniseOwn(st, i, TestWordleResult(st, st.tasks[i].m.text))
    ELSE Recognised(st, i, TestWordleResult(st, st.tasks[i].m.text))

\* the return of updateGroupMemberCount: into handleMessages, or to the
\* end of findTargetGroup
AfterMemberCount(st, i) ==
    IF st.tasks[i].kind = "message" THEN Recognise(st, i) ELSE Finish(st, i)

\* handleMessages up to the target-group check
HandleMessagesStart(st, i) ==
    LET m == st.tasks[i].m
    IN  IF ~m.hasContent THEN Finish(st, i)
        ELSE IF ~EndsWith(m.chatId, GroupSuffix) THEN Finish(st, i)
        ELSE IF st.targetGroupId # NoGroup /\ m.chatId # st.targetGroupId
             THEN Finish(st, i)
        ELSE IF st.targetGroupId = NoGroup THEN SetPc(st, i, "groupMetadata")
        ELSE Recognise(st, i)

(***************************************************************************)
(* The environment: the groups of the account and the inbound messages     *)
(***************************************************************************)
TargetChat == <<"1", "2", "@", "g", ".", "u", "s">>

OtherChat == <<"3", "4", "@", "g", ".", "u", "s">>

\* a second group that carries the target group's name
TwinChat == <<"5", "6", "@", "g", ".", "u", "s">>

\* a group id of the form creator-timestamp
HyphenChat == <<"9", "-", "5", "@", "g", ".", "u", "s">>

PrivateChat ==
    <<"7", "8", "@", "s", ".", "w", "h", "a", "t", "s", "a", "p", "p", ".",
      "n", "e", "t">>

\* groupMetadata.subject
GroupSubject(chatId) ==
    IF chatId \in {TargetChat, TwinChat, HyphenChat} THEN "Wordlepaglu"
    ELSE "Family"

\* groupMetadata.participants.length
GroupParticipants(chatId) == IF chatId = TargetChat THEN 2 ELSE 3

Message(chatId, fromMe, pushName, text) ==
    [chatId |-> chatId, fromMe |-> fromMe, pushName |-> pushName,
     participant |-> <<"9198", "s.whatsapp.net">>, hasContent |-> TRUE,
     text |-> text]

SolvedText == MkText(Header(WordleWord, <<"7">>, "4"), <<RowMixed, RowGreen>>)

FailedText == MkText(Header(WordleWord, <<"7">>, "X"), <<RowBlack>>)

\* recognised, but without a row of 5 symbols
NoGridText == MkText(Header(WordleWord, <<"7">>, "4"), <<RowFour>>)

StatsCommand == CommandPrefix \o <<" ", "s", "t", "a", "t", "s">>

LeaderboardCommand ==
    CommandPrefix \o <<" ", "L", "e", "a", "d", "e", "r", "b", "o", "a", "r", "d">>

DailyCommand == CommandPrefix \o <<" ", "d", "a", "i", "l", "y">>

DailyGameCommand == DailyCommand \o <<" ", "7">>

MaxMessages == 2

MaxStarts == 2

MaxOpens == 1

MaxFailures == 1

MaxPending == 2

(***************************************************************************)
(* The bot's operations                                                     *)
(***************************************************************************)
BotState ==
    [lastIndex |-> lastIndex, targetGroupId |-> targetGroupId,
     groupMemberCount |-> groupMemberCount, groupStats |-> groupStats,
     dailySubmissions |-> dailySubmissions, db |-> db, sent |-> sent,
     tasks |-> tasks, timers |-> timers, now |-> now, startup |-> startup]

\* the step of the bot that leaves the state st
Commit(st) ==
    /\ lastIndex' = st.lastIndex
    /\ targetGroupId' = st.targetGroupId
    /\ groupMemberCount' = st.groupMemberCount
    /\ groupStats' = st.groupStats
    /\ dailySubmissions' = st.dailySubmissions
    /\ db' = st.db
    /\ sent' = st.sent
    /\ tasks' = st.tasks
    /\ timers' = st.timers
    /\ now' = st.now
    /\ startup' = st.startup
    /\ UNCHANGED <<call, utcOffset>>

Waiting(i, pc) == i \in DOMAIN tasks /\ tasks[i].pc = pc

\* the outcome of a network call: it succeeds, or it fails, which happens
\* at most MaxFailures times in a run
Outcome(ok) ==
    /\ ~ok => failures < MaxFailures
    /\ failures' = IF ok THEN failures ELSE failures + 1

MessageTasks == {i \in DOMAIN tasks : tasks[i].kind = "message"}

OpenTasks == {i \in DOMAIN tasks : tasks[i].kind = "open"}

\* a new handler starts while fewer than MaxPending handlers are suspended
Pending == {i \in DOMAIN tasks : tasks[i].pc # "done"}

MayStart == Cardinality(Pending) < MaxPending

\* a messages.upsert event with the message m: handleMessages runs up to
\* its first await
Deliver(m) ==
    /\ Cardinality(MessageTasks) < MaxMessages
    /\ MayStart
    /\ UNCHANGED failures
    /\ LET st == [BotState EXCEPT !.tasks = Append(@, NewTask("message", m)),
                                  !.sent = Append(@, <<>>)]
       IN  Commit(HandleMessagesStart(st, Len(st.tasks)))

\* this.sock.groupMetadata(chatId) of handleMessages returns or throws
GroupMetadataReturns(i, ok) ==
    /\ Waiting(i, "groupMetadata")
    /\ Outcome(ok)
    /\ LET chatId == tasks[i].m.chatId
       IN  Commit(IF ~ok \/ GroupSubject(chatId) # targetGroupName
                  THEN Finish(BotState, i)
                  ELSE SetPc([BotState EXCEPT !.targetGroupId = chatId],
                             i, "memberMetadata"))

\* this.sock.groupMetadata(groupId) of updateGroupMemberCount returns or
\* throws
MemberMetadataReturns(i, ok) ==
    /\ Waiting(i, "memberMetadata")
    /\ Outcome(ok)
    /\ LET st == [BotState EXCEPT
                    !.groupMemberCount = GroupParticipants(tasks[i].m.chatId)]
       IN  Commit(IF ~ok THEN AfterMemberCount(BotState, i)
                  ELSE IF ~st.db.available THEN AfterMemberCount(st, i)
                  ELSE SetPc(st, i, "membersRead"))

\* getRange('GroupMembers!A:C') of updateGroupMembers returns ([] on error)
MembersRead(i, ok) ==
    /\ Waiting(i, "membersRead")
    /\ Outcome(ok)
    /\ LET chatId == tasks[i].m.chatId
           existingData == IF ok THEN db.GroupMembers ELSE NoRows
           index == FindIndex(existingData, LAMBDA row : row.groupId = chatId)
       IN  Commit(IF ~db.available THEN AfterMemberCount(BotState, i)
                  ELSE SetPc([BotState EXCEPT !.tasks[i].index = index],
                             i, "membersWrite"))

\* appendRow / updateRange of updateGroupMembers returns or throws
MembersWritten(i, ok) ==
    /\ Waiting(i, "membersWrite")
    /\ Outcome(ok)
    /\ LET chatId == tasks[i].m.chatId
           newRow == [groupId |-> chatId, groupName |-> GroupSubject(chatId),
                      memberCount |-> groupMemberCount]
           st == [BotState EXCEPT
                    !.db.GroupMembers = WriteRow(@, tasks[i].index, newRow)]
       IN  Commit(AfterMemberCount(IF ok THEN st ELSE BotState, i))

\* the row appended twice
SaveAppendedTwiceMut(i, ok) ==
    /\ Waiting(i, "saveAppend")
    /\ Outcome(ok)
    /\ LET st == [BotState EXCEPT
                    !.db.DailyResults = @ \o <<DailyRow(tasks[i].result),
                                               DailyRow(tasks[i].result)>>]
       IN  Commit(IF ok THEN UpdateTotalsStart(st, i)
                  ELSE AfterSave(BotState, i))

\* appendRow('DailyResults', row) of saveWordleResult returns or throws
SaveAppended(i, ok) ==
    /\ Waiting(i, "saveAppend")
    /\ Outcome(ok)
    /\ LET st == [BotState EXCEPT
                    !.db.DailyResults = Append(@, DailyRow(tasks[i].result))]
       IN  Commit(IF ok THEN UpdateTotalsStart(st, i)
                  ELSE AfterSave(BotState, i))

\* getRange('DailyResults!A:H') of getPlayerResults returns ([] on error)
SaveReadResults(i, ok) ==
    /\ Waiting(i, "saveReadResults")
    /\ Outcome(ok)
    /\ LET results == IF ok THEN PlayerRows(db.DailyResults, tasks[i].result.player)
                      ELSE NoRows
       IN  Commit(IF Len(results) = 0 \/ ~db.available THEN AfterSave(BotState, i)
                  ELSE SetPc([BotState EXCEPT !.tasks[i].rows = results],
                             i, "saveReadTotals"))

\* getRange('TotalScores!A:F') of updateTotalScores returns ([] on error)
SaveReadTotals(i, ok) ==
    /\ Waiting(i, "saveReadTotals")
    /\ Outcome(ok)
    /\ LET player == tasks[i].result.player
           existingData == IF ok THEN db.TotalScores ELSE NoRows
           index == FindIndex(existingData, LAMBDA row : row.player = player)
       IN  Commit(IF ~db.available THEN AfterSave(BotState, i)
                  ELSE SetPc([BotState EXCEPT !.tasks[i].index = index],
                             i, "saveWriteTotals"))

\* appendRow / updateRange of updateTotalScores returns or throws
SaveWroteTotals(i, ok) ==
    /\ Waiting(i, "saveWriteTotals")
    /\ Outcome(ok)
    /\ LET newRow == TotalsRow(tasks[i].result.player, tasks[i].rows)
           st == [BotState EXCEPT
                    !.db.TotalScores = WriteRow(@, tasks[i].index, newRow)]
       IN  Commit(AfterSave(IF ok THEN st ELSE BotState, i))

\* a failed reaction followed by the reply all the same
ReactedGoesOnMut(i, ok) ==
    /\ Waiting(i, "react")
    /\ Outcome(ok)
    /\ LET st == Send(BotState, i, tasks[i].out)
       IN  Commit(AwaitSend(IF ok THEN st ELSE BotState, i, "reply",
                            ReplyText(tasks[i].result)))

\* sendMessage of the reaction returns or throws
Reacted(i, ok) ==
    /\ Waiting(i, "react")
    /\ Outcome(ok)
    /\ LET st == Send(BotState, i, tasks[i].out)
       IN  Commit(IF ok THEN AwaitSend(st, i, "reply", ReplyText(tasks[i].result))
                  ELSE AfterProcess(BotState, i))

\* sendMessage of the reply returns or throws
Replied(i, ok) ==
    /\ Waiting(i, "reply")
    /\ Outcome(ok)
    /\ LET st == Send(BotState, i, tasks[i].out)
       IN  Commit(IF ok THEN CheckForCompleteSubmissions(st, i)
                  ELSE AfterProcess(BotState, i))

\* getDailyResults(gameNumber) of sendDailyLeaderboard returns ([] on error)
DailyRead(i, ok) ==
    /\ Waiting(i, "dailyRead")
    /\ Outcome(ok)
    /\ LET dailyResults == IF ok THEN GameRows(db.DailyResults, tasks[i].game)
                           ELSE NoRows
       IN  Commit(IF Len(dailyResults) = 0 THEN DailyDone(BotState, i)
                  ELSE AwaitSend(BotState, i, "dailySend",
                                 DailyBoard(dailyResults, tasks[i].game)))

\* sendMessage of the daily leaderboard returns or throws
DailySent(i, ok) ==
    /\ Waiting(i, "dailySend")
    /\ Outcome(ok)
    /\ LET st == Send(BotState, i, tasks[i].out)
       IN  Commit(DailyDone(IF ok THEN st ELSE BotState, i))

\* getTotalLeaderboard() of sendTotalLeaderboard returns ([] on error)
TotalRead(i, ok) ==
    /\ Waiting(i, "totalRead")
    /\ Outcome(ok)
    /\ LET totalLeaderboard == IF ok THEN getTotalLeaderboard(db.TotalScores)
                               ELSE NoRows
       IN  Commit(IF Len(totalLeaderboard) = 0 THEN Finish(BotState, i)
                  ELSE AwaitSend(BotState, i, "totalSend",
                                 TotalBoard(totalLeaderboard)))

\* sendMessage of the total leaderboard returns or throws
TotalSent(i, ok) ==
    /\ Waiting(i, "totalSend")
    /\ Outcome(ok)
    /\ LET st == Send(BotState, i, tasks[i].out)
       IN  Commit(Finish(IF ok THEN st ELSE BotState, i))

\* getRange('DailyResults!A:H') of getTournamentResults returns ([] on
\* error); saveTournamentResults reads the sheet of the tournaments
TournamentRead(i, ok) ==
    /\ Waiting(i, "tournamentRead")
    /\ Outcome(ok)
    /\ LET data == IF ok THEN db.DailyResults ELSE NoRows
           range == tasks[i].tournament.range
       IN  Commit(IF Len(data) = 0 THEN TournamentSend(BotState, i, NoRows)
                  ELSE SetPc([BotState EXCEPT !.tasks[i].rows =
                                 TournamentPlayers(data, range.startDate,
                                                   range.endDate)],
                             i, "tournamentSaveRead"))

\* getRange('TournamentResults!A:G') of saveTournamentResults returns ([]
\* on error)
TournamentSaveRead(i, ok) ==
    /\ Waiting(i, "tournamentSaveRead")
    /\ Outcome(ok)
    /\ LET existingData == IF ok THEN db.TournamentResults ELSE NoRows
       IN  Commit(SetPc([BotState EXCEPT !.tasks[i].tournament.values =
                            TournamentValues(existingData,
                                             tasks[i].tournament.tournamentId,
                                             tasks[i].rows,
                                             tasks[i].tournament.range)],
                        i, "tournamentSaveWrite"))

\* updateRange of saveTournamentResults returns or throws (the error is
\* caught); getTournamentResults returns its results
TournamentSaveWrote(i, ok) ==
    /\ Waiting(i, "tournamentSaveWrite")
    /\ Outcome(ok)
    /\ LET st == IF ok
                 THEN [BotState EXCEPT !.db.TournamentResults =
                          OverwriteRows(@, tasks[i].tournament.values)]
                 ELSE BotState
       IN  Commit(TournamentSend(st, i, tasks[i].rows))

\* sendMessage of a command's answer returns or throws; the daily and the
\* tournament command answer a failure with an error text
Sent(i, ok) ==
    /\ Waiting(i, "send")
    /\ Outcome(ok)
    /\ LET st == Send(BotState, i, tasks[i].out)
       IN  Commit(IF ok THEN Finish(st, i)
                  ELSE IF tasks[i].out.type = "noDaily"
                       THEN AwaitSend(BotState, i, "send", [type |-> "dailyError"])
                  ELSE IF tasks[i].out.type \in {"tournament", "noTournament"}
                       THEN AwaitSend(BotState, i, "send",
                                      [type |-> "tournamentError"])
                  ELSE Finish(BotState, i))

\* the timer armed by checkForCompleteSubmissions fires:
\* sendTotalLeaderboard(chatId)
TimerFires ==
    /\ timers # <<>>
    /\ MayStart
    /\ UNCHANGED failures
    /\ LET m == Message(Head(timers), FALSE, "", <<>>)
           st == [BotState EXCEPT !.tasks = Append(@, NewTask("timer", m)),
                                  !.sent = Append(@, <<>>),
                                  !.timers = Tail(@)]
       IN  Commit(TotalStart(st, Len(st.tasks)))

\* connection.update with connection = 'open': findTargetGroup is called
ConnectionOpen ==
    /\ Cardinality(OpenTasks) < MaxOpens
    /\ MayStart
    /\ UNCHANGED failures
    /\ LET m == Message(NoGroup, FALSE, "", <<>>)
           st == [BotState EXCEPT !.tasks = Append(@, NewTask("open", m)),
                                  !.sent = Append(@, <<>>)]
       IN  Commit(SetPc(st, Len(st.tasks), "fetchGroups"))

\* groupFetchAllParticipating returns the groups, with or without the
\* target group, or throws
GroupsFetched(i, outcome) ==
    /\ Waiting(i, "fetchGroups")
    /\ Outcome(outcome # "error")
    /\ Commit(IF outcome = "found"
              THEN SetPc([BotState EXCEPT !.targetGroupId = TargetChat,
                                          !.tasks[i].m.chatId = TargetChat],
                         i, "memberMetadata")
              ELSE Finish(BotState, i))

\* a restart that clears the results kept in memory
ConnectionCloseResetMut ==
    /\ startup.starts < MaxStarts
    /\ UNCHANGED failures
    /\ Commit([BotState EXCEPT !.startup.starts = @ + 1, !.groupStats = <<>>])

\* connection.update with connection = 'close' and a reason other than
\* logged out: start() is called again
ConnectionClose ==
    /\ startup.starts < MaxStarts
    /\ UNCHANGED failures
    /\ Commit([BotState EXCEPT !.startup.starts = @ + 1])

\* db.initialize of start() returns: the store is available, or not
DbInitialized(ok) ==
    /\ startup.initialized < startup.starts
    /\ UNCHANGED failures
    /\ Commit([BotState EXCEPT !.startup.initialized = @ + 1,
                               !.db.available = ok])

\* the messages of the bot's runs: results of two players and of the
\* account's owner in the target group, texts that are no result, a
\* command, and a result in another group
BotMessages ==
    { Message(TargetChat, FALSE, "Asha", SolvedText),
      Message(TargetChat, FALSE, "Asha", FailedText),
      Message(TargetChat, FALSE, "Ravi", SolvedText),
      Message(TargetChat, FALSE, "Asha", NoGridText),
      Message(TargetChat, FALSE, "Asha", Caption),
      Message(TargetChat, TRUE, "Asha", SolvedText),
      Message(TargetChat, FALSE, "Ravi", StatsCommand),
      Message(OtherChat, FALSE, "Ravi", SolvedText) }

\* the states start() and the first connection leave the bot in: the store
\* initialised or not, the target group not found, found with its members
\* counted and recorded, or found without a count
StartedStates ==
    {[available |-> a, targetGroupId |-> NoGroup, groupMemberCount |-> 0,
      GroupMembers |-> NoRows] : a \in BOOLEAN}
    \cup {[available |-> a, targetGroupId |-> TargetChat, groupMemberCount |-> 0,
           GroupMembers |-> NoRows] : a \in BOOLEAN}
    \cup {[available |-> FALSE, targetGroupId |-> TargetChat,
           groupMemberCount |-> GroupParticipants(TargetChat),
           GroupMembers |-> NoRows],
          [available |-> TRUE, targetGroupId |-> TargetChat,
           groupMemberCount |-> GroupParticipants(TargetChat),
           GroupMembers |-> <<[groupId |-> TargetChat,
                               groupName |-> GroupSubject(TargetChat),
                               memberCount |-> GroupParticipants(TargetChat)]>>]}

InitStarted ==
    /\ lastIndex = 0
    /\ call = [op |-> "new"]
    /\ \E started \in StartedStates :
          /\ targetGroupId = started.targetGroupId
          /\ groupMemberCount = started.groupMemberCount
          /\ db = [available |-> started.available, DailyResults |-> <<>>,
                   TotalScores |-> <<>>, GroupMembers |-> started.GroupMembers,
                   TournamentResults |-> <<>>]
    /\ groupStats = <<>>
    /\ dailySubmissions = <<>>
    /\ sent = <<>>
    /\ tasks = <<>>
    /\ timers = <<>>
    /\ now = 1
    /\ startup = [starts |-> 1, initialized |-> 1]
    /\ failures = 0
    /\ utcOffset = 0

\* messages to a bot that has started; a handler is resumed with either
\* outcome of the call it waits for
NextBot ==
    \/ \E m \in BotMessages : Deliver(m)
    \/ \E i \in DOMAIN tasks, ok \in BOOLEAN : GroupMetadataReturns(i, ok)
    \/ \E i \in DOMAIN tasks, ok \in BOOLEAN : MemberMetadataReturns(i, ok)
    \/ \E i \in DOMAIN tasks, ok \in BOOLEAN : MembersRead(i, ok)
    \/ \E i \in DOMAIN tasks, ok \in BOOLEAN : MembersWritten(i, ok)
    \/ \E i \in DOMAIN tasks, ok \in BOOLEAN : SaveAppended(i, ok)
    \/ \E i \in DOMAIN tasks, ok \in BOOLEAN : SaveReadResults(i, ok)
    \/ \E i \in DOMAIN tasks, ok \in BOOLEAN : SaveReadTotals(i, ok)
    \/ \E i \in DOMAIN tasks, ok \in BOOLEAN : SaveWroteTotals(i, ok)
    \/ \E i \in DOMAIN tasks, ok \in BOOLEAN : Reacted(i, ok)
    \/ \E i \in DOMAIN tasks, ok \in BOOLEAN : Replied(i, ok)
    \/ \E i \in DOMAIN tasks, ok \in BOOLEAN : DailyRead(i, ok)
    \/ \E i \in DOMAIN tasks, ok \in BOOLEAN : DailySent(i, ok)
    \/ \E i \in DOMAIN tasks, ok \in BOOLEAN : TotalRead(i, ok)
    \/ \E i \in DOMAIN tasks, ok \in BOOLEAN : TotalSent(i, ok)
    \/ \E i \in DOMAIN tasks, ok \in BOOLEAN : Sent(i, ok)
    \/ TimerFires

SpecBot == InitStarted /\ [][NextBot]_vars

\* start, connection events, a result and a statistics request
ConnMessages ==
    { Message(TargetChat, FALSE, "Asha", SolvedText),
      Message(TargetChat, FALSE, "Ravi", StatsCommand) }

NextConn ==
    \/ \E m \in ConnMessages : Deliver(m)
    \/ \E i \in DOMAIN tasks, ok \in BOOLEAN : GroupMetadataReturns(i, ok)
    \/ \E i \in DOMAIN tasks, ok \in BOOLEAN : MemberMetadataReturns(i, ok)
    \/ \E i \in DOMAIN tasks, ok \in BOOLEAN : MembersRead(i, ok)
    \/ \E i \in DOMAIN tasks, ok \in BOOLEAN : MembersWritten(i, ok)
    \/ \E i \in DOMAIN tasks, ok \in BOOLEAN : SaveAppended(i, ok)
    \/ \E i \in DOMAIN tasks, ok \in BOOLEAN : SaveReadResults(i, ok)
    \/ \E i \in DOMAIN tasks, ok \in BOOLEAN : SaveReadTotals(i, ok)
    \/ \E i \in DOMAIN tasks, ok \in BOOLEAN : SaveWroteTotals(i, ok)
    \/ \E i \in DOMAIN tasks, ok \in BOOLEAN : Reacted(i, ok)
    \/ \E i \in DOMAIN tasks, ok \in BOOLEAN : Replied(i, ok)
    \/ \E i \in DOMAIN tasks, ok \in BOOLEAN : DailyRead(i, ok)
    \/ \E i \in DOMAIN tasks, ok \in BOOLEAN : DailySent(i, ok)
    \/ \E i \in DOMAIN tasks, ok \in BOOLEAN : TotalRead(i, ok)
    \/ \E i \in DOMAIN tasks, ok \in BOOLEAN : TotalSent(i, ok)
    \/ \E i \in DOMAIN tasks, ok \in BOOLEAN : Sent(i, ok)
    \/ TimerFires
    \/ ConnectionOpen
    \/ \E i \in DOMAIN tasks, outcome \in {"found", "absent", "error"} :
          GroupsFetched(i, outcome)
    \/ ConnectionClose
    \/ \E ok \in BOOLEAN : DbInitialized(ok)

SpecConn == Init /\ [][NextConn]_vars

(***************************************************************************)
(* A bot started on a store that earlier runs have written                 *)
(***************************************************************************)
\* the store after saveWordleResult has run for each result in turn
RECURSIVE SavedStore(_, _)
SavedStore(results, store) ==
    IF results = <<>> THEN store
    ELSE LET result == Head(results)
             daily == Append(store.DailyResults, DailyRow(result))
             index == FindIndex(store.TotalScores,
                                LAMBDA row : row.player = result.player)
             totals == WriteRow(store.TotalScores, index,
                                TotalsRow(result.player,
                                          PlayerRows(daily, result.player)))
         IN  SavedStore(Tail(results),
                        [store EXCEPT !.DailyResults = daily,
                                      !.TotalScores = totals])

\* six guesses, the last one right: 100 + 10
SixthGuessText ==
    MkText(Header(WordleWord, <<"8">>, "6"),
           <<RowBlack, RowBlack, RowBlack, RowBlack, RowBlack, RowGreen>>)

\* six wrong guesses: 0 + 0
SixMissesText ==
    MkText(Header(WordleWord, <<"7">>, "X"),
           <<RowBlack, RowBlack, RowBlack, RowBlack, RowBlack, RowBlack>>)

\* submissions of earlier days: one per player and game
SavedResults ==
    { WithPlayer(parseWordleResult(SixMissesText), "Ravi", Today, 0),
      WithPlayer(parseWordleResult(SixthGuessText), "Ravi", Today, 0),
      WithPlayer(parseWordleResult(SixthGuessText), "Asha", Today, 0),
      WithPlayer(parseWordleResult(SolvedText), "Asha", Today, 0) }

MaxSaved == 3

\* the submissions in the orders they can have been saved in
SavedOrders ==
    UNION {{s \in [1..n -> SavedResults] :
               \A j, k \in 1..n : j # k => s[j] # s[k]} : n \in 0..MaxSaved}

SavedStores ==
    {SavedStore(s, [available |-> TRUE, DailyResults |-> NoRows,
                    TotalScores |-> NoRows, GroupMembers |-> NoRows,
                    TournamentResults |-> NoRows]) :
        s \in SavedOrders}

InitLeaders ==
    /\ lastIndex = 0
    /\ call = [op |-> "new"]
    /\ \E started \in StartedStates, store \in SavedStores :
          /\ targetGroupId = started.targetGroupId
          /\ groupMemberCount = started.groupMemberCount
          /\ db = [store EXCEPT !.available = started.available,
                                !.GroupMembers = started.GroupMembers]
    /\ groupStats = <<>>
    /\ dailySubmissions = <<>>
    /\ sent = <<>>
    /\ tasks = <<>>
    /\ timers = <<>>
    /\ now = 1
    /\ startup = [starts |-> 1, initialized |-> 1]
    /\ failures = 0
    /\ utcOffset = 0

\* requests for the two leaderboards
LeaderMessages ==
    { Message(TargetChat, FALSE, "Ravi", LeaderboardCommand),
      Message(TargetChat, FALSE, "Asha", DailyGameCommand) }

NextLeaders ==
    \/ \E m \in LeaderMessages : Deliver(m)
    \/ \E i \in DOMAIN tasks, ok \in BOOLEAN : GroupMetadataReturns(i, ok)
    \/ \E i \in DOMAIN tasks, ok \in BOOLEAN : MemberMetadataReturns(i, ok)
    \/ \E i \in DOMAIN tasks, ok \in BOOLEAN : MembersRead(i, ok)
    \/ \E i \in DOMAIN tasks, ok \in BOOLEAN : MembersWritten(i, ok)
    \/ \E i \in DOMAIN tasks, ok \in BOOLEAN : DailyRead(i, ok)
    \/ \E i \in DOMAIN tasks, ok \in BOOLEAN : DailySent(i, ok)
    \/ \E i \in DOMAIN tasks, ok \in BOOLEAN : TotalRead(i, ok)
    \/ \E i \in DOMAIN tasks, ok \in BOOLEAN : TotalSent(i, ok)

SpecLeaders == InitLeaders /\ [][NextLeaders]_vars

(***************************************************************************)
(* Tournament periods of dates                                             *)
(***************************************************************************)
MaxYear == 2024

\* a leap year, the century years 2000 (leap) and 2100 (not leap)
PeriodYears == {2000, 2100} \cup (2024..MaxYear)

\* the hosts: New York in winter, UTC, India
UtcOffsets == {0 - 300, 0, 330}

IsLeapYear(y) == (y % 4 = 0 /\ y % 100 # 0) \/ y % 400 = 0

\* the calendar's table of month lengths
LastDayOf(y, m) ==
    IF m = 2 THEN (IF IsLeapYear(y) THEN 29 ELSE 28)
    ELSE IF m \in {4, 6, 9, 11} THEN 30
    ELSE 31

\* days around the boundaries of the halves, and two times of day
PeriodDays == {1, 15, 16, 28, 29, 30, 31}

PeriodMinutes == {0, MinutesPerDay - 1}

PeriodTimes ==
    {[year |-> y, month |-> m, day |-> d, minute |-> t] :
        y \in PeriodYears, m \in 1..12, d \in PeriodDays, t \in PeriodMinutes}

\* the identifier of the half h of month m of year y
PeriodId(y, m, h) ==
    <<DigitChars[(y \div 1000) + 1], DigitChars[((y \div 100) % 10) + 1],
      DigitChars[((y \div 10) % 10) + 1], DigitChars[(y % 10) + 1], "-",
      DigitChars[(m \div 10) + 1], DigitChars[(m % 10) + 1], "-", "T",
      DigitChars[h + 1]>>

PeriodIds == {PeriodId(y, m, h) : y \in PeriodYears, m \in 1..12, h \in 1..2}

\* getCurrentTournamentId() at the local time local
GetCurrentTournamentId(local) ==
    LET date == LocalDate(local.year, local.month - 1, local.day) + local.minute
    IN  /\ UNCHANGED lastIndex
        /\ call' = [op |-> "getCurrentTournamentId", local |-> local,
                    date |-> date, value |-> getCurrentTournamentId(date)]
        /\ UNCHANGED botVars

GetTournamentDateRange(tournamentId) ==
    /\ UNCHANGED lastIndex
    /\ call' = [op |-> "getTournamentDateRange", tournamentId |-> tournamentId,
                value |-> getTournamentDateRange(tournamentId)]
    /\ UNCHANGED botVars

InitPeriods ==
    /\ lastIndex = 0
    /\ call = [op |-> "new"]
    /\ targetGroupId = <<>>
    /\ groupMemberCount = 0
    /\ groupStats = <<>>
    /\ dailySubmissions = <<>>
    /\ db = [available |-> FALSE, DailyResults |-> <<>>,
             TotalScores |-> <<>>, GroupMembers |-> <<>>,
             TournamentResults |-> <<>>]
    /\ sent = <<>>
    /\ tasks = <<>>
    /\ timers = <<>>
    /\ now = 1
    /\ startup = [starts |-> 1, initialized |-> 0]
    /\ failures = 0
    /\ utcOffset \in UtcOffsets

NextPeriods ==
    \/ \E local \in PeriodTimes :
          /\ local.day <= LastDayOf(local.year, local.month)
          /\ GetCurrentTournamentId(local)
    \/ \E tournamentId \in PeriodIds : GetTournamentDateRange(tournamentId)

SpecPeriods == InitPeriods /\ [][NextPeriods]_vars

(***************************************************************************)
(* Tournament leaderboards over a store with dated results                 *)
(***************************************************************************)
\* the days of the submissions: around the boundaries of the halves of
\* February 2024
DatedDays ==
    <<[month |-> 1, day |-> 31], [month |-> 2, day |-> 1],
      [month |-> 2, day |-> 15], [month |-> 2, day |-> 16],
      [month |-> 2, day |-> 29], [month |-> 3, day |-> 1]>>

\* one submission per day, of the two players in turn
DatedResults ==
    [k \in DOMAIN DatedDays |->
        WithPlayer(parseWordleResult(SolvedText),
                   IF k % 2 = 0 THEN "Asha" ELSE "Ravi",
                   DateText(2024, DatedDays[k].month, DatedDays[k].day), 0)]

MaxDated == 2

\* the submissions of up to MaxDated of the days, in the order of the days
DatedOrders ==
    {SelectSeq(DatedResults, LAMBDA result : result.date \in dates) :
        dates \in {ds \in SUBSET {DatedResults[k].date : k \in DOMAIN DatedResults} :
                      Cardinality(ds) <= MaxDated}}

DatedStores ==
    {SavedStore(s, [available |-> TRUE, DailyResults |-> NoRows,
                    TotalScores |-> NoRows, GroupMembers |-> NoRows,
                    TournamentResults |-> NoRows]) :
        s \in DatedOrders}

TournamentCommand ==
    CommandPrefix \o <<" ", "t", "o", "u", "r", "n", "a", "m", "e", "n", "t">>

\* requests for the two halves of February 2024 and for the current period
TournamentMessages ==
    { Message(TargetChat, FALSE, "Asha",
              TournamentCommand \o <<" ">> \o PeriodId(2024, 2, 1)),
      Message(TargetChat, FALSE, "Ravi",
              TournamentCommand \o <<" ">> \o PeriodId(2024, 2, 2)),
      Message(TargetChat, FALSE, "Ravi", TournamentCommand) }

InitTournament ==
    /\ lastIndex = 0
    /\ call = [op |-> "new"]
    /\ targetGroupId = TargetChat
    /\ groupMemberCount = GroupParticipants(TargetChat)
    /\ \E store \in DatedStores, available \in BOOLEAN :
          db = [store EXCEPT !.available = available]
    /\ groupStats = <<>>
    /\ dailySubmissions = <<>>
    /\ sent = <<>>
    /\ tasks = <<>>
    /\ timers = <<>>
    /\ now = 1
    /\ startup = [starts |-> 1, initialized |-> 1]
    /\ failures = 0
    /\ utcOffset \in UtcOffsets

NextTournament ==
    \/ \E m \in TournamentMessages : Deliver(m)
    \/ \E i \in DOMAIN tasks, ok \in BOOLEAN : TournamentRead(i, ok)
    \/ \E i \in DOMAIN tasks, ok \in BOOLEAN : TournamentSaveRead(i, ok)
    \/ \E i \in DOMAIN tasks, ok \in BOOLEAN : TournamentSaveWrote(i, ok)
    \/ \E i \in DOMAIN tasks, ok \in BOOLEAN : Sent(i, ok)

SpecTournament == InitTournament /\ [][NextTournament]_vars

(***************************************************************************)
(* Messages of several chats                                               *)
(***************************************************************************)
\* results in the target group, in a group of the same name, in another
\* group and in a private chat
GroupMessages ==
    { Message(TargetChat, FALSE, "Asha", SolvedText),
      Message(TargetChat, FALSE, "Ravi", SolvedText),
      Message(TwinChat, FALSE, "Ravi", SolvedText),
      Message(OtherChat, FALSE, "Ravi", SolvedText),
      Message(PrivateChat, FALSE, "Asha", SolvedText) }

NextGroups ==
    \/ \E m \in GroupMessages : Deliver(m)
    \/ \E i \in DOMAIN tasks, ok \in BOOLEAN : GroupMetadataReturns(i, ok)
    \/ \E i \in DOMAIN tasks, ok \in BOOLEAN : MemberMetadataReturns(i, ok)
    \/ \E i \in DOMAIN tasks, ok \in BOOLEAN : MembersRead(i, ok)
    \/ \E i \in DOMAIN tasks, ok \in BOOLEAN : MembersWritten(i, ok)
    \/ \E i \in DOMAIN tasks, ok \in BOOLEAN : SaveAppended(i, ok)
    \/ \E i \in DOMAIN tasks, ok \in BOOLEAN : SaveReadResults(i, ok)
    \/ \E i \in DOMAIN tasks, ok \in BOOLEAN : SaveReadTotals(i, ok)
    \/ \E i \in DOMAIN tasks, ok \in BOOLEAN : SaveWroteTotals(i, ok)
    \/ \E i \in DOMAIN tasks, ok \in BOOLEAN : Reacted(i, ok)
    \/ \E i \in DOMAIN tasks, ok \in BOOLEAN : Replied(i, ok)
    \/ \E i \in DOMAIN tasks, ok \in BOOLEAN : DailyRead(i, ok)
    \/ \E i \in DOMAIN tasks, ok \in BOOLEAN : DailySent(i, ok)
    \/ \E i \in DOMAIN tasks, ok \in BOOLEAN : TotalRead(i, ok)
    \/ \E i \in DOMAIN tasks, ok \in BOOLEAN : TotalSent(i, ok)
    \/ TimerFires

SpecGroups == InitStarted /\ [][NextGroups]_vars

(***************************************************************************)
(* Properties                                                              *)
(***************************************************************************)
Parsed == call.op = "parseWordleResult" /\ ~call.value.isNull

Scored == call.op = "calculateScore"

\* C1: a text with a header "Wordle <N> <A>/6", <N> a number written with
\* or without thousands commas and <A> a digit 1..6, and with at least one
\* line of exactly 5 grid symbols, parses to a result whose gameNumber is
\* the number <N> denotes, whose attempts label is <A> and whose solved
\* flag is true.
C1_ValidHeaderParsed ==
    \A w \in {WordleWord, WordleWordOtherCase}, n \in ValidNumbers,
       l \in DigitLabels, b \in ApiBodies :
        (/\ call.op = "parseWordleResult"
         /\ call.text = MkText(Header(w, n.str, l), b)
         /\ \E i \in DOMAIN b : b[i] = RowMixed)
        => /\ ~call.value.isNull
           /\ call.value.gameNumber = n.val
           /\ call.value.actualAttempts = l
           /\ call.value.solved = TRUE

C1_Witness ==
    /\ Parsed
    /\ call.text = MkText(Header(WordleWord, <<"1", ",", "2", "3", "4">>, "4"),
                          <<RowMixed>>)
    /\ call.value.gameNumber = 1234
    /\ call.value.actualAttempts = "4"
    /\ call.value.solved

\* C2: every parsed result has an attempts label in {1,...,6,X}, is
\* unsolved exactly when the attempts token of the header is the letter X
\* in either case, and carries an attempts value in 1..6 when it is solved.
C2_LabelAndSolved ==
    Parsed =>
        /\ call.value.actualAttempts \in DigitLabels \cup {"X"}
        /\ (call.value.solved = FALSE)
               <=> (Canon(MatchHeader(call.text).g2) = "X")
        /\ call.value.solved => call.value.attempts \in 1..6

\* C3: a parsed result whose attempts label is X is unsolved and has base
\* score 0 whatever its grid, and its total score is its bonus points.
C3_FailedScoresBonusOnly ==
    (Parsed /\ call.value.actualAttempts = "X")
        => /\ call.value.solved = FALSE
           /\ call.value.score.baseScore = 0
           /\ call.value.score.totalScore = call.value.score.emojiPoints

C3_Witness ==
    /\ Parsed
    /\ call.value.actualAttempts = "X"
    /\ Len(call.value.pattern) = 2
    /\ call.value.score.emojiPoints > 0
    /\ call.value.score.totalScore = call.value.score.emojiPoints

RECURSIVE Flatten(_)
Flatten(rows) == IF rows = <<>> THEN <<>> ELSE Head(rows) \o Flatten(Tail(rows))

CountOf(sym, row) == Cardinality({i \in DOMAIN row : row[i] = sym})

\* C4: calculateScore returns bonus points of 2 for each green and 1 for
\* each yellow symbol of the grid and nothing for the other symbols, and a
\* total of base score plus bonus points; the four rows of the end-to-end
\* example score 21 + 300 = 321, also when parsed from the example message.
C4_BonusAndTotal ==
    /\ Scored =>
           /\ call.value.emojiPoints =
                  2 * CountOf("green", Flatten(call.pattern))
                      + CountOf("yellow", Flatten(call.pattern))
           /\ call.value.totalScore =
                  call.value.baseScore + call.value.emojiPoints
    /\ (Scored /\ call.attemptsStr = "4" /\ call.pattern = ExampleRows)
           => call.value =
                  [baseScore |-> 300, emojiPoints |-> 21, totalScore |-> 321]
    /\ (call.op = "parseWordleResult" /\ call.text = ExampleText)
           => /\ ~call.value.isNull
              /\ call.value.pattern = ExampleRows
              /\ call.value.score =
                     [baseScore |-> 300, emojiPoints |-> 21, totalScore |-> 321]

C4_Witness ==
    /\ Scored
    /\ call.attemptsStr = "4"
    /\ call.pattern = ExampleRows
    /\ call.value.totalScore = 321

C6_AttemptsDominate ==
    [][(/\ call.op = "parseWordleResult"
        /\ call'.op = "parseWordleResult"
        /\ ~call.value.isNull
        /\ ~call'.value.isNull
        /\ call.value.score.baseScore > call'.value.score.baseScore)
       => call.value.score.totalScore > call'.value.score.totalScore]_vars

\* the grid a message body yields: the symbols of its 5-symbol lines
KeptRow(line) ==
    CASE line = RowMixed -> <<RowMixed>>
      [] line = RowCaptioned -> <<RowGreen>>
      [] OTHER -> <<>>

RECURSIVE KeptRows(_)
KeptRows(body) ==
    IF body = <<>> THEN <<>> ELSE KeptRow(Head(body)) \o KeptRows(Tail(body))

\* C7: the grid of a parsed result is the sequence, in line order, of the
\* symbols of the lines that hold exactly 5 grid symbols; lines with fewer
\* or more symbols, captions and blank lines are dropped, and the parse
\* returns no result when no line is left.
C7_GridIsFilteredLines ==
    \A h \in GridHeaders, b \in GridBodies :
        (call.op = "parseWordleResult" /\ call.text = MkText(h, b))
            => IF KeptRows(b) = <<>>
               THEN call.value.isNull
               ELSE /\ ~call.value.isNull
                    /\ call.value.pattern = KeptRows(b)

C7_Witness ==
    /\ Parsed
    /\ \E h \in GridHeaders : call.text = MkText(h, <<RowFour, RowCaptioned>>)
    /\ call.value.pattern = <<RowGreen>>

\* C8: every parsed result has a grid of 1 to 6 rows, each of exactly 5
\* symbols of the closed set.
C8_GridShape ==
    Parsed =>
        /\ Len(call.value.pattern) \in 1..6
        /\ \A i \in DOMAIN call.value.pattern :
               /\ Len(call.value.pattern[i]) = 5
               /\ \A j \in 1..5 : call.value.pattern[i][j] \in GridSymbols

\* C9: isWordleResult does not reject a text that parseWordleResult parses,
\* whatever calls were made on the analyzer before.
C9_RecognizerAcceptsParseable ==
    (call.op = "isWordleResult" /\ ~parseWordleResult(call.text).isNull)
        => call.value = TRUE

\* C10: the answer of isWordleResult for a text does not depend on earlier
\* calls: two consecutive calls on the same text return the same boolean.
C10_RecognizerStateless ==
    [][(/\ call.op = "isWordleResult"
        /\ call'.op = "isWordleResult"
        /\ call'.text = call.text)
       => call'.value = call.value]_vars

Aggregated == call.op = "getPlayerStats"

AggregatedSome == Aggregated /\ ~call.arg.isNull /\ Len(call.arg.items) > 0

\* C18: getPlayerStats of an empty or absent sequence returns the
\* zero-valued statistics, with a distribution that holds the seven
\* buckets 1..6 and X, each 0.
C18_EmptyStats ==
    (Aggregated /\ (call.arg.isNull \/ Len(call.arg.items) = 0))
        => /\ call.value.totalGames = 0
           /\ call.value.solvedGames = 0
           /\ call.value.solveRate.num = 0
           /\ call.value.averageAttempts.num = 0
           /\ call.value.averageScore.num = 0
           /\ call.value.totalScore = 0
           /\ call.value.distribution = [k \in Buckets |-> 0]

CountWhere(results, P(_)) == Cardinality({i \in DOMAIN results : P(results[i])})

IsUnsolved(r) == ~r.solved

RECURSIVE SumOver(_, _)
SumOver(f, keys) ==
    IF keys = {} THEN 0
    ELSE LET k == CHOOSE x \in keys : TRUE
         IN  f[k] + SumOver(f, keys \ {k})

\* C19: for every sequence of results of the parser, the distribution has
\* exactly the seven buckets 1..6 and X, with counts that are natural
\* numbers and sum to totalGames, and bucket X counts the unsolved results.
C19_OneBucketPerResult ==
    AggregatedSome =>
        /\ DOMAIN call.value.distribution = Buckets
        /\ \A k \in Buckets : call.value.distribution[k] \in Nat
        /\ SumOver(call.value.distribution, Buckets) = call.value.totalGames
        /\ call.value.distribution["X"] = CountWhere(call.arg.items, IsUnsolved)

\* the sum of the attempts values of the solved results, counted bucket by
\* bucket; NaN when a solved result has no numeric attempts value
SolvedWith(results, n) ==
    Cardinality({i \in DOMAIN results :
                    results[i].solved /\ results[i].attempts = n})

SolvedAttemptsSum(results) ==
    IF SolvedWith(results, NaN) > 0 THEN NaN
    ELSE SolvedWith(results, 1) + 2 * SolvedWith(results, 2)
             + 3 * SolvedWith(results, 3) + 4 * SolvedWith(results, 4)
             + 5 * SolvedWith(results, 5) + 6 * SolvedWith(results, 6)

RECURSIVE ScoreAt(_, _)
ScoreAt(results, positions) ==
    IF positions = {} THEN 0
    ELSE LET i == CHOOSE x \in positions : TRUE
         IN  results[i].score.totalScore + ScoreAt(results, positions \ {i})

\* C21: totalScore is the sum of totalScore over all results, where an
\* unsolved result counts with its bonus points only; averageScore is that
\* sum over totalGames; solveRate is solvedGames / totalGames * 100 and
\* solvedGames <= totalGames.
C21_TotalsOverAllResults ==
    AggregatedSome =>
        LET results == call.arg.items
            total == ScoreAt(results, DOMAIN results)
        IN  /\ call.value.totalGames = Len(results)
            /\ call.value.solvedGames = CountWhere(results, IsSolved)
            /\ call.value.solvedGames <= call.value.totalGames
            /\ call.value.totalScore = total
            /\ call.value.averageScore = Ratio(total, call.value.totalGames)
            /\ call.value.solveRate =
                   Ratio(100 * call.value.solvedGames, call.value.totalGames)
            /\ \A i \in DOMAIN results :
                   ~results[i].solved =>
                       /\ results[i].score.baseScore = 0
                       /\ results[i].score.totalScore = results[i].score.emojiPoints

C21_Witness ==
    /\ AggregatedSome
    /\ CountWhere(call.arg.items, IsUnsolved) = 1
    /\ CountWhere(call.arg.items, IsSolved) = 1
    /\ \E i, j \in DOMAIN call.arg.items :
          /\ ~call.arg.items[i].solved
          /\ call.arg.items[i].score.totalScore > 0
          /\ call.arg.items[j].solved
          /\ call.value.totalScore = call.arg.items[i].score.totalScore
                                        + call.arg.items[j].score.totalScore

Ranked ==
    /\ call.op = "generateGameLeaderboard"
    /\ ~call.arg.isNull
    /\ Len(call.arg.items) > 0

Orderings(n) ==
    {f \in [1..n -> 1..n] : \A i, j \in 1..n : i # j => f[i] # f[j]}

\* the entry of the leaderboard that shows a result, whatever its rank
Shows(entry, result) ==
    /\ entry.player = result.player
    /\ entry.totalScore = result.score.totalScore
    /\ entry.baseScore = result.score.baseScore
    /\ entry.emojiPoints = result.score.emojiPoints
    /\ entry.attempts = AttemptsLabel(result.solved, result.attempts)

\* C15: the entries of the game leaderboard are the input results ordered
\* by totalScore descending, then by baseScore descending, and results
\* equal in both keep their input order.
C15_OrderedAndStable ==
    Ranked =>
        LET in == call.arg.items
            out == call.value.entries
        IN  /\ Len(out) = Len(in)
            /\ \E f \in Orderings(Len(in)) :
                  /\ \A p \in DOMAIN out : Shows(out[p], in[f[p]])
                  /\ \A p, q \in DOMAIN out :
                        p < q =>
                          \/ out[p].totalScore > out[q].totalScore
                          \/ /\ out[p].totalScore = out[q].totalScore
                             /\ out[p].baseScore > out[q].baseScore
                          \/ /\ out[p].totalScore = out[q].totalScore
                             /\ out[p].baseScore = out[q].baseScore
                             /\ f[p] < f[q]

\* a tie of totalScore decided by baseScore against the input order, and a
\* tie of both keys between two players
C15_Witness ==
    /\ Ranked
    /\ Len(call.arg.items) = 3
    /\ call.arg.items[1].score = [baseScore |-> 100, emojiPoints |-> 100, totalScore |-> 200]
    /\ call.arg.items[2].score = [baseScore |-> 200, emojiPoints |-> 0, totalScore |-> 200]
    /\ call.arg.items[3].score = call.arg.items[2].score
    /\ call.arg.items[2].player = "Ravi"
    /\ call.arg.items[3].player = "Asha"
    /\ call.value.entries[1].player = "Ravi"
    /\ call.value.entries[2].player = "Asha"
    /\ call.value.entries[3].baseScore = 100

\* C16: the entries of the leaderboard are a permutation of the input
\* results, and the entry at position p has rank p: ranks are 1..n without
\* gap or repetition, also between entries with identical scores.
C16_PermutationWithRanks ==
    Ranked =>
        LET in == call.arg.items
            out == call.value.entries
        IN  /\ Len(out) = Len(in)
            /\ \E f \in Orderings(Len(in)) :
                  \A p \in DOMAIN out : Shows(out[p], in[f[p]])
            /\ \A p \in DOMAIN out : out[p].rank = p
            /\ {out[p].rank : p \in DOMAIN out} = 1..Len(in)

C16_Witness ==
    /\ Ranked
    /\ Len(call.arg.items) = 3
    /\ call.arg.items[1] = call.arg.items[2]
    /\ call.arg.items[3].score.totalScore > call.arg.items[1].score.totalScore
    /\ call.value.entries[2].rank = 2
    /\ call.value.entries[3].rank = 3
    /\ call.value.entries[2].totalScore = call.value.entries[3].totalScore

(***************************************************************************)
(* Properties of the bot                                                    *)
(***************************************************************************)
\* the handler tasks[i] takes this step (a step resumes or starts one
\* handler)
StepOf(i) == i \notin DOMAIN tasks \/ tasks'[i] # tasks[i]

\* the messages that are no command and that the parser rejects
UnparsedMessages ==
    {m \in BotMessages :
        /\ ~StartsWith(m.text, CommandPrefix)
        /\ parseWordleResult(m.text).isNull}

NothingSent ==
    \A j \in DOMAIN sent' :
        sent'[j] = IF j \in DOMAIN sent THEN sent[j] ELSE <<>>

\* C11 as stated: a step of the handler of a message that is no command and
\* does not parse sends nothing, writes nothing to the store and leaves the
\* per-player sequences and the submitter sets unchanged.
C11_SilentOnUnparsed ==
    [][\A i \in DOMAIN tasks' :
          (StepOf(i) /\ tasks'[i].kind = "message"
                     /\ tasks'[i].m \in UnparsedMessages)
              => /\ NothingSent
                 /\ db' = db
                 /\ groupStats' = groupStats
                 /\ dailySubmissions' = dailySubmissions]_vars

\* C11 amended: such a step sends nothing, writes no row to the daily
\* results or the total scores and leaves the per-player sequences and the
\* submitter sets unchanged; the only write it can make is the
\* group-member row of its chat, when its handler discovers the target
\* group.
C11_SilentExceptDiscovery ==
    [][\A i \in DOMAIN tasks' :
          (StepOf(i) /\ tasks'[i].kind = "message"
                     /\ tasks'[i].m \in UnparsedMessages)
              => /\ NothingSent
                 /\ db'.DailyResults = db.DailyResults
                 /\ db'.TotalScores = db.TotalScores
                 /\ db'.available = db.available
                 /\ db'.GroupMembers # db.GroupMembers
                        => /\ tasks[i].pc = "membersWrite"
                           /\ targetGroupId = tasks[i].m.chatId
                           /\ \A k \in DOMAIN db'.GroupMembers :
                                 \/ /\ k \in DOMAIN db.GroupMembers
                                    /\ db'.GroupMembers[k] = db.GroupMembers[k]
                                 \/ db'.GroupMembers[k].groupId = tasks[i].m.chatId
                 /\ groupStats' = groupStats
                 /\ dailySubmissions' = dailySubmissions]_vars

\* a recognised text without a grid row was handled to its end by the
\* handler that discovered the target group, with the store available
C11_Witness ==
    \E i \in DOMAIN tasks :
        /\ tasks[i].pc = "done"
        /\ tasks[i].kind = "message"
        /\ tasks[i].m.text = NoGridText
        /\ targetGroupId = tasks[i].m.chatId
        /\ i = 1
        /\ db.available
        /\ Len(db.GroupMembers) = 1
        /\ sent[i] = <<>>

IsPrefix(old, new) ==
    /\ Len(new) >= Len(old)
    /\ SubSeq(new, 1, Len(old)) = old

\* C12: in every step the per-player sequences only grow: every chat and
\* player stays, and the sequence a player had is a prefix of the sequence
\* the player has after the step.
C12_AppendOnly ==
    [][/\ Len(groupStats') >= Len(groupStats)
       /\ \A c \in DOMAIN groupStats :
             /\ groupStats'[c].key = groupStats[c].key
             /\ Len(groupStats'[c].value) >= Len(groupStats[c].value)
             /\ \A p \in DOMAIN groupStats[c].value :
                   /\ groupStats'[c].value[p].key = groupStats[c].value[p].key
                   /\ IsPrefix(groupStats[c].value[p].value,
                               groupStats'[c].value[p].value)]_vars

\* a sequence of two results in a bot that was restarted and initialised
\* its store twice
C12_Witness ==
    /\ startup.starts = 2
    /\ startup.initialized = 2
    /\ \E c \in DOMAIN groupStats : \E p \in DOMAIN groupStats[c].value :
          Len(groupStats[c].value[p].value) = 2

SavePcs == {"saveAppend", "saveReadResults", "saveReadTotals", "saveWriteTotals"}

\* the places <<chat, player, position>> of the elements appended for the
\* result parsed at the time timestamp
PlacesOf(timestamp) ==
    {<<c, p, k>> \in (DOMAIN groupStats) \X (1..Len(tasks)) \X (1..Len(tasks)) :
        /\ p \in DOMAIN groupStats[c].value
        /\ k \in DOMAIN groupStats[c].value[p].value
        /\ groupStats[c].value[p].value[k].timestamp = timestamp}

RECURSIVE SumLen(_)
SumLen(entries) ==
    IF entries = <<>> THEN 0
    ELSE Len(Head(entries).value) + SumLen(Tail(entries))

RECURSIVE CountResults(_)
CountResults(map) ==
    IF map = <<>> THEN 0
    ELSE SumLen(Head(map).value) + CountResults(Tail(map))

HasParsed(i) == tasks[i].kind = "message" /\ ~tasks[i].result.isNull

HasAppended(i) == HasParsed(i) /\ tasks[i].pc \notin SavePcs

\* C13: the elements of the sequences are the results of the messages whose
\* handler parsed a result and has returned from the save: one element each,
\* in the sequence of the message's sender in its chat; a message without a
\* parsed result has no element.
C13_OneAppendPerResult ==
    /\ CountResults(groupStats) = Cardinality({i \in DOMAIN tasks : HasAppended(i)})
    /\ \A i \in DOMAIN tasks :
          HasParsed(i) =>
              LET places == PlacesOf(tasks[i].result.timestamp)
              IN  IF tasks[i].pc \in SavePcs THEN places = {}
                  ELSE /\ Cardinality(places) = 1
                       /\ \A pl \in places :
                             /\ groupStats[pl[1]].key = tasks[i].m.chatId
                             /\ groupStats[pl[1]].value[pl[2]].key = SenderOf(tasks[i].m)
                             /\ groupStats[pl[1]].value[pl[2]].value[pl[3]]
                                    = tasks[i].result

\* two players have one result each, and the handler of a text that did
\* not parse has ended
C13_Witness ==
    /\ CountResults(groupStats) = 2
    /\ Len(groupStats) = 1
    /\ Len(groupStats[1].value) = 2
    /\ \A i \in DOMAIN tasks : tasks[i].pc = "done"

\* C14: two results of the same player in the same chat stand in the
\* player's sequence in the order in which their messages were delivered.
C14_ArrivalOrder ==
    \A i, j \in DOMAIN tasks :
        (i < j /\ HasAppended(i) /\ HasAppended(j)
               /\ tasks[i].m.chatId = tasks[j].m.chatId
               /\ SenderOf(tasks[i].m) = SenderOf(tasks[j].m))
            => \A pi \in PlacesOf(tasks[i].result.timestamp),
                  pj \in PlacesOf(tasks[j].result.timestamp) : pi[3] < pj[3]

\* a may stand before b: higher total, then higher solve rate, then lower
\* average attempts
MayPrecede(a, b) ==
    \/ a.totalScore > b.totalScore
    \/ /\ a.totalScore = b.totalScore
       /\ \/ a.solveRate > b.solveRate
          \/ a.solveRate = b.solveRate /\ a.avgAttempts <= b.avgAttempts

\* C17: the leaderboard sent for '!wordle leaderboard' orders the players by
\* total score descending, ties by solve rate descending, then by average
\* attempts ascending.
C17_TotalsTieBreaks ==
    \A i \in DOMAIN sent : \A k \in DOMAIN sent[i] :
        sent[i][k].content.type = "total" =>
            \A p, q \in DOMAIN sent[i][k].content.entries :
                p < q => MayPrecede(sent[i][k].content.entries[p],
                                    sent[i][k].content.entries[q])

\* the number of days from 1970-01-01 to a day, counted year by year and
\* month by month
DaysBefore(y, m, d) ==
    365 * (y - 1970) + Cardinality({k \in 1970..(y - 1) : IsLeapYear(k)})
        + (LET RECURSIVE MonthDays(_)
               MonthDays(k) == IF k = 0 THEN 0
                               ELSE LastDayOf(y, k) + MonthDays(k - 1)
           IN  MonthDays(m - 1))
        + d - 1

\* midnight of a day on the host's clock
LocalMidnight(y, m, d) == DaysBefore(y, m, d) * MinutesPerDay - utcOffset

\* the day of the host's calendar an instant lies in
LocalDayOf(date) == (date + utcOffset) \div MinutesPerDay

IdRequested == call.op = "getCurrentTournamentId"

RangeRequested == call.op = "getTournamentDateRange"

\* C23: the period of a date is half 1 up to day 15 and half 2 from day 16,
\* with the identifier YYYY-MM-T1 or YYYY-MM-T2; the range of half 1 is day
\* 1 to day 15, the range of half 2 is day 16 to the last day of the month.
C23_HalvesAndRanges ==
    /\ IdRequested =>
          call.value = PeriodId(call.local.year, call.local.month,
                                IF call.local.day <= 15 THEN 1 ELSE 2)
    /\ RangeRequested =>
          \A y \in PeriodYears, m \in 1..12 :
              /\ call.tournamentId = PeriodId(y, m, 1) =>
                    /\ ~call.value.threw
                    /\ call.value.startDate = LocalMidnight(y, m, 1)
                    /\ call.value.endDate = LocalMidnight(y, m, 15)
              /\ call.tournamentId = PeriodId(y, m, 2) =>
                    /\ ~call.value.threw
                    /\ call.value.startDate = LocalMidnight(y, m, 16)
                    /\ call.value.endDate = LocalMidnight(y, m, LastDayOf(y, m))

C23_Witness ==
    /\ RangeRequested
    /\ utcOffset # 0
    /\ call.tournamentId = PeriodId(2024, 2, 2)
    /\ call.value.endDate = LocalMidnight(2024, 2, 29)

\* C24: the range of the identifier of a date's period contains the day of
\* that date, and every day of the range has that identifier.
C24_PeriodAndRangeInverse ==
    IdRequested =>
        LET range == getTournamentDateRange(call.value)
        IN  /\ ~range.threw
            /\ LocalDayOf(range.startDate) <= DaysBefore(call.local.year,
                                                 call.local.month, call.local.day)
            /\ DaysBefore(call.local.year, call.local.month, call.local.day)
                   <= LocalDayOf(range.endDate)
            /\ \A day \in LocalDayOf(range.startDate)..LocalDayOf(range.endDate) :
                   \A minute \in PeriodMinutes :
                       getCurrentTournamentId(day * MinutesPerDay + minute
                                                  - utcOffset) = call.value

C24_Witness ==
    /\ IdRequested
    /\ utcOffset # 0
    /\ call.local = [year |-> 2024, month |-> 2, day |-> 29,
                     minute |-> MinutesPerDay - 1]
    /\ call.value = PeriodId(2024, 2, 2)
    /\ LocalDayOf(getTournamentDateRange(call.value).endDate)
           = DaysBefore(2024, 2, 29)

\* the rows of the daily results of a player with a date from day first to
\* day last of month m of year y
RowsInDays(player, y, m, first, last) ==
    Cardinality({k \in DOMAIN db.DailyResults :
                    /\ db.DailyResults[k].player = player
                    /\ \E d \in first..last :
                          db.DailyResults[k].date = DateText(y, m, d)})

\* the games an answer to the tournament command counts for a player
GamesCounted(content, player) ==
    IF content.type = "tournament"
          /\ \E k \in DOMAIN content.entries : content.entries[k].player = player
    THEN LET k == CHOOSE j \in DOMAIN content.entries :
                      content.entries[j].player = player
         IN  content.entries[k].gamesPlayed
    ELSE 0

\* C25: a tournament leaderboard counts a stored result if and only if the
\* date of the result is a day of the period, the days 1, 15, 16 and the
\* last day of the month included, whatever the UTC offset of the host
\* (with the store available and no failing call).
C25_CountsDaysOfPeriod ==
    \A i \in DOMAIN sent : \A k \in DOMAIN sent[i] :
        (/\ db.available
         /\ failures = 0
         /\ sent[i][k].content.type \in {"tournament", "noTournament"})
            => \A player \in Players :
                   /\ sent[i][k].content.tournamentId = PeriodId(2024, 2, 1)
                         => GamesCounted(sent[i][k].content, player)
                                = RowsInDays(player, 2024, 2, 1, 15)
                   /\ sent[i][k].content.tournamentId = PeriodId(2024, 2, 2)
                         => GamesCounted(sent[i][k].content, player)
                                = RowsInDays(player, 2024, 2, 16, 29)

\* the handlers whose appendRow of saveWordleResult has returned
AppendReturned == {i \in DOMAIN tasks : HasParsed(i) /\ tasks[i].pc # "saveAppend"}

\* the flat record of a result
FlatRecord(result) ==
    [date |-> result.date, gameNumber |-> result.gameNumber,
     player |-> result.player, attempts |-> result.actualAttempts,
     solved |-> result.solved, baseScore |-> result.score.baseScore,
     emojiPoints |-> result.score.emojiPoints,
     totalScore |-> result.score.baseScore + result.score.emojiPoints]

\* C26: with the store available, each parsed message has one flat record
\* appended to the daily results (none where the append call itself failed),
\* and the append has returned before the reaction or the reply of the
\* message is sent.
C26_OneRowBeforeReaction ==
    db.available =>
        /\ Len(db.DailyResults) <= Cardinality(AppendReturned)
        /\ Len(db.DailyResults) >= Cardinality(AppendReturned) - failures
        /\ \A k \in DOMAIN db.DailyResults :
              \E i \in AppendReturned :
                  db.DailyResults[k] = FlatRecord(tasks[i].result)
        /\ \A i \in DOMAIN tasks :
              (\E k \in DOMAIN sent[i] : sent[i][k].content.type \in {"react", "reply"})
                  => i \in AppendReturned

C26_Witness ==
    /\ db.available
    /\ failures = 0
    /\ Len(db.DailyResults) = 2
    /\ db.DailyResults[1].player # db.DailyResults[2].player
    /\ \E i \in DOMAIN tasks :
          /\ Len(sent[i]) >= 2
          /\ sent[i][1].content.type = "react"
          /\ sent[i][2].content.type = "reply"

\* the positions of the messages of a type among those a handler has sent
SentOfType(i, type) == {k \in DOMAIN sent[i] : sent[i][k].content.type = type}

IgnoredOnArrival ==
    \A i \in DOMAIN tasks' \ DOMAIN tasks :
        (/\ tasks'[i].kind = "message"
         /\ \/ ~EndsWith(tasks'[i].m.chatId, GroupSuffix)
            \/ targetGroupId # NoGroup /\ tasks'[i].m.chatId # targetGroupId)
            => /\ tasks'[i].pc = "done"
               /\ NothingSent
               /\ db' = db
               /\ groupStats' = groupStats
               /\ dailySubmissions' = dailySubmissions

\* C28: a message from a chat that is no group, or from a group other than
\* the target group once the target group id is set, is ignored; and the
\* results recorded belong to at most one chat.
C28_OnlyTargetGroup ==
    [][IgnoredOnArrival /\ Len(groupStats') <= 1]_vars

\* the handler i handles the request for the statistics
IsStatsRequest(i) == tasks[i].kind = "message" /\ tasks[i].m.text = StatsCommand

\* the sequence of the results recorded in memory for a player of a chat
ResultsOf(chatId, player) ==
    IF MapHas(groupStats, chatId) /\ MapHas(MapGet(groupStats, chatId), player)
    THEN MapGet(MapGet(groupStats, chatId), player)
    ELSE <<>>

\* the submitters recorded for a game of a chat
SubmittersOf(chatId, gameNumber) ==
    IF MapHas(dailySubmissions, GameKey(chatId, gameNumber))
    THEN MapGet(dailySubmissions, GameKey(chatId, gameNumber))
    ELSE {}

\* C29: while the store is unavailable no row is written; the handler of a
\* parsed result never waits for the store, has the result appended in
\* memory once and its sender among the submitters of the game, and, when
\* no send fails, sends the reaction and then the reply; the answer to
\* '!wordle stats' is the no-results text or the statistics of the results
\* appended in memory so far, player by player.
C29_WorksWithoutStore ==
    ~db.available =>
        /\ db.DailyResults = <<>>
        /\ db.TotalScores = <<>>
        /\ db.GroupMembers = <<>>
        /\ db.TournamentResults = <<>>
        /\ \A i \in DOMAIN tasks :
              /\ HasParsed(i) =>
                    /\ tasks[i].pc \notin SavePcs
                    /\ Cardinality(PlacesOf(tasks[i].result.timestamp)) = 1
                    /\ Len(ResultsOf(tasks[i].m.chatId, tasks[i].result.player)) >= 1
                    /\ tasks[i].result.player
                           \in SubmittersOf(tasks[i].m.chatId,
                                           tasks[i].result.gameNumber)
                    /\ failures = 0 =>
                          /\ tasks[i].pc = "react" \/ SentOfType(i, "react") = {1}
                          /\ tasks[i].pc \in {"react", "reply"}
                                \/ SentOfType(i, "reply") = {2}
              /\ (IsStatsRequest(i) /\ sent[i] # <<>>) =>
                    LET content == sent[i][1].content
                    IN  /\ content.type \in {"stats", "noResults"}
                        /\ content.type = "stats" =>
                              \A p \in DOMAIN content.players :
                                  LET player == content.players[p].player
                                      results == ResultsOf(tasks[i].m.chatId, player)
                                  IN  \E n \in 1..Len(results) :
                                          content.players[p] =
                                              StatsEntry(player, SubSeq(results, 1, n))

C29_Witness ==
    /\ ~db.available
    /\ failures = 0
    /\ \E i, j \in DOMAIN tasks :
          /\ HasParsed(i)
          /\ tasks[i].pc = "done"
          /\ SentOfType(i, "react") = {1}
          /\ SentOfType(i, "reply") = {2}
          /\ IsStatsRequest(j)
          /\ sent[j] # <<>>
          /\ sent[j][1].content.type = "stats"
          /\ sent[j][1].content.players[1].totalGames = 1

\* a grid symbol of the line is followed by a modifier
CarriesModifier(line) ==
    \E k \in 2..Len(line) : line[k] \in Modifiers /\ line[k - 1] \in GridSymbols

\* the rows of the lines with exactly 5 grid symbols none of which carries a
\* modifier
RECURSIVE UnmodifiedRows(_)
UnmodifiedRows(lines) ==
    IF lines = <<>> THEN <<>>
    ELSE (IF /\ Len(SelectSeq(Head(lines), IsGridSymbol)) = 5
             /\ ~CarriesModifier(Head(lines))
          THEN <<SelectSeq(Head(lines), IsGridSymbol)>> ELSE <<>>)
             \o UnmodifiedRows(Tail(lines))

\* C30: a line in which a grid symbol carries a variation selector or
\* another modifier is no row of the grid, even with 5 base symbols: the
\* grid of a parsed message is made of its other lines with 5 symbols, and
\* a message without such a line does not parse.
C30_ModifiedRowRejected ==
    call.op = "parseWordleResult" =>
        LET rows == UnmodifiedRows(Split(call.text))
        IN  IF call.value.isNull THEN rows = <<>>
            ELSE call.value.pattern = rows

\* C31: the emoji points of a parsed result, whose grid is made of rows of
\* 5 symbols, lie between 0 and 10 times the number of rows, and do not
\* exceed 99 for a grid of at most 6 rows.
C31_BonusBounded ==
    (call.op = "parseWordleResult" /\ ~call.value.isNull) =>
        /\ \A k \in DOMAIN call.value.pattern : Len(call.value.pattern[k]) = 5
        /\ call.value.score.emojiPoints >= 0
        /\ call.value.score.emojiPoints <= 10 * Len(call.value.pattern)
        /\ Len(call.value.pattern) <= 6 => call.value.score.emojiPoints <= 99

\* six all-green rows reach the largest value of a grid of 6 rows
C31_Witness ==
    /\ call.op = "parseWordleResult"
    /\ ~call.value.isNull
    /\ Len(call.value.pattern) = 6
    /\ call.value.score.emojiPoints = 60

\* the handler i of a parsed result has sent the daily leaderboard its
\* completion check asked for
SentAutomaticDaily(i) ==
    /\ HasParsed(i)
    /\ \E k \in DOMAIN sent[i] : sent[i][k].content.type = "daily"

\* C32: the daily leaderboard of the completion check is sent only when the
\* distinct submitters recorded for the chat and the game are at least as
\* many as the participants of the group (the submitter sets only grow, so
\* a state with the leaderboard sent and fewer submitters shows a send
\* before everyone has submitted).
C32_DailyOnlyWhenComplete ==
    \A i \in DOMAIN tasks :
        SentAutomaticDaily(i) =>
            Cardinality(SubmittersOf(tasks[i].m.chatId, tasks[i].result.gameNumber))
                >= GroupParticipants(tasks[i].m.chatId)

\* the days of the host's calendar from the first to the last day of a
\* range
DaysOfRange(range) == LocalDayOf(range.startDate)..LocalDayOf(range.endDate)

\* the days of month m of year y
DaysOfMonth(y, m) == DaysBefore(y, m, 1)..DaysBefore(y, m, LastDayOf(y, m))

\* C33: the range of a period lies inside its month, the ranges of the two
\* halves of a month are disjoint and together are the days of the month,
\* and a day around the range lies in it exactly when the period of that
\* day is the period of the range (so the one period whose range holds a
\* day is the period of that day).
C33_PeriodsPartition ==
    RangeRequested =>
        \A y \in PeriodYears, m \in 1..12, h \in 1..2 :
            call.tournamentId = PeriodId(y, m, h) =>
                LET days == DaysOfRange(call.value)
                    others == DaysOfRange(getTournamentDateRange(PeriodId(y, m, 3 - h)))
                IN  /\ days # {}
                    /\ days \subseteq DaysOfMonth(y, m)
                    /\ days \cap others = {}
                    /\ days \cup others = DaysOfMonth(y, m)
                    /\ \A day \in (DaysBefore(y, m, 1) - 31)..(DaysBefore(y, m, 1) + 62) :
                          \A minute \in PeriodMinutes :
                              day \in days <=>
                                  getCurrentTournamentId(day * MinutesPerDay + minute
                                                             - utcOffset)
                                      = call.tournamentId

C33_Witness ==
    /\ RangeRequested
    /\ utcOffset # 0
    /\ call.tournamentId = PeriodId(2100, 2, 2)
    /\ DaysOfRange(call.value) = DaysBefore(2100, 2, 16)..DaysBefore(2100, 2, 28)

\* the reaction of the handler i has failed: the handler is past the
\* reaction without having sent it
ReactionFailed(i) ==
    /\ HasAppended(i)
    /\ tasks[i].pc # "react"
    /\ SentOfType(i, "react") = {}

\* the reply of the handler i has failed
ReplyFailed(i) ==
    /\ HasAppended(i)
    /\ tasks[i].pc \notin {"react", "reply"}
    /\ SentOfType(i, "react") = {1}
    /\ SentOfType(i, "reply") = {}

\* C34: after a failed reaction or reply the handler has ended without a
\* further message (no reply after a failed reaction, no daily leaderboard
\* of the completion check), and the result is still recorded: once in
\* memory, its sender among the submitters and, when the store is available
\* and the send was the only failing call, its row in the daily results.
C34_SendFailureSkipsRest ==
    \A i \in DOMAIN tasks :
        (ReactionFailed(i) \/ ReplyFailed(i)) =>
            /\ failures >= 1
            /\ tasks[i].pc = "done"
            /\ SentOfType(i, "reply") = {}
            /\ SentOfType(i, "daily") = {}
            /\ Len(sent[i]) = IF ReplyFailed(i) THEN 1 ELSE 0
            /\ Cardinality(PlacesOf(tasks[i].result.timestamp)) = 1
            /\ tasks[i].result.player
                   \in SubmittersOf(tasks[i].m.chatId, tasks[i].result.gameNumber)
            /\ (db.available /\ failures = 1) =>
                  \E k \in DOMAIN db.DailyResults :
                      db.DailyResults[k] = FlatRecord(tasks[i].result)

\* a reaction has failed where the completion check would have succeeded,
\* and a later message has been handled
C34_Witness ==
    /\ db.available
    /\ groupMemberCount = 0
    /\ \E i, j \in DOMAIN tasks :
          /\ i < j
          /\ ReactionFailed(i)
          /\ Len(db.DailyResults) >= 1
          /\ HasParsed(j)
          /\ SentOfType(j, "reply") = {2}

\* the rows of the total scores of a player
TotalsOf(player) == PlayerRows(db.TotalScores, player)

\* no handler is inside saveWordleResult
SavesCompleted == \A i \in DOMAIN tasks : tasks[i].pc \notin SavePcs

\* C35: the total scores hold at most one row per player, and once every
\* save has completed without a failing call, the row of a player with
\* daily results counts those results and sums their total scores.
C35_OneTotalsRowPerPlayer ==
    \A k \in DOMAIN db.DailyResults :
        LET player == db.DailyResults[k].player
            results == PlayerRows(db.DailyResults, player)
        IN  /\ Len(TotalsOf(player)) <= 1
            /\ (SavesCompleted /\ failures = 0) =>
                  /\ Len(TotalsOf(player)) = 1
                  /\ TotalsOf(player)[1].totalGames = Len(results)
                  /\ TotalsOf(player)[1].totalScore = SumRowScores(results)

(***************************************************************************)
(* Repeated submissions and the daily command in a group that has results  *)
(***************************************************************************)
\* the bot after start() with the target group chatId found and counted
FoundState(chatId) ==
    [lastIndex |-> 0, targetGroupId |-> chatId,
     groupMemberCount |-> GroupParticipants(chatId), groupStats |-> <<>>,
     dailySubmissions |-> <<>>,
     db |-> [available |-> TRUE, DailyResults |-> NoRows,
             TotalScores |-> NoRows,
             GroupMembers |-> <<[groupId |-> chatId,
                                 groupName |-> GroupSubject(chatId),
                                 memberCount |-> GroupParticipants(chatId)]>>,
             TournamentResults |-> NoRows],
     sent |-> <<>>, tasks |-> <<>>, timers |-> <<>>, now |-> 1,
     startup |-> [starts |-> 1, initialized |-> 1]]

\* the bot after the handlers of earlier results of the chat have run to
\* their end one after the other: the rows saved, the results and the
\* submitters recorded
RECURSIVE EarlierState(_, _, _)
EarlierState(st, chatId, results) ==
    IF results = <<>> THEN st
    ELSE LET result == Head(results)
             m == Message(chatId, FALSE, result.player, result.rawText)
             task == [NewTask("message", m) EXCEPT !.result = result]
             s1 == AfterSave([st EXCEPT !.tasks = <<task>>,
                                        !.db = SavedStore(<<result>>, @),
                                        !.now = @ + 1], 1)
         IN  EarlierState([s1 EXCEPT !.tasks = <<>>], chatId, Tail(results))

\* the target group: its id without or with a '-'
DailyChats == {TargetChat, HyphenChat}

\* no earlier result, or Ravi's result of game 7
EarlierResults ==
    {<<>>, <<WithPlayer(parseWordleResult(SolvedText), "Ravi", Today, 1)>>}

InitDaily ==
    /\ lastIndex = 0
    /\ call = [op |-> "new"]
    /\ \E chatId \in DailyChats, results \in EarlierResults :
          LET st == EarlierState(FoundState(chatId), chatId, results)
          IN  /\ targetGroupId = st.targetGroupId
              /\ groupMemberCount = st.groupMemberCount
              /\ groupStats = st.groupStats
              /\ dailySubmissions = st.dailySubmissions
              /\ db = st.db
              /\ now = st.now
    /\ sent = <<>>
    /\ tasks = <<>>
    /\ timers = <<>>
    /\ startup = [starts |-> 1, initialized |-> 1]
    /\ failures = 0
    /\ utcOffset = 0

\* two results of Asha for game 7, one for game 8, and the daily command
\* without a game number, in either group
DailyMessages ==
    {Message(chatId, FALSE, "Asha", text) :
        chatId \in DailyChats, text \in {SolvedText, FailedText, SixthGuessText}}
    \cup {Message(chatId, FALSE, "Ravi", DailyCommand) : chatId \in DailyChats}

NextDaily ==
    \/ \E m \in DailyMessages : Deliver(m)
    \/ \E i \in DOMAIN tasks, ok \in BOOLEAN : SaveAppended(i, ok)
    \/ \E i \in DOMAIN tasks, ok \in BOOLEAN : SaveReadResults(i, ok)
    \/ \E i \in DOMAIN tasks, ok \in BOOLEAN : SaveReadTotals(i, ok)
    \/ \E i \in DOMAIN tasks, ok \in BOOLEAN : SaveWroteTotals(i, ok)
    \/ \E i \in DOMAIN tasks, ok \in BOOLEAN : Reacted(i, ok)
    \/ \E i \in DOMAIN tasks, ok \in BOOLEAN : Replied(i, ok)
    \/ \E i \in DOMAIN tasks, ok \in BOOLEAN : DailyRead(i, ok)
    \/ \E i \in DOMAIN tasks, ok \in BOOLEAN : DailySent(i, ok)
    \/ \E i \in DOMAIN tasks, ok \in BOOLEAN : TotalRead(i, ok)
    \/ \E i \in DOMAIN tasks, ok \in BOOLEAN : TotalSent(i, ok)
    \/ \E i \in DOMAIN tasks, ok \in BOOLEAN : Sent(i, ok)
    \/ TimerFires

SpecDaily == InitDaily /\ [][NextDaily]_vars

\* the submitters of a game of a chat, and the results of a player of a
\* chat, after the step
SubmittersAfter(chatId, gameNumber) ==
    IF MapHas(dailySubmissions', GameKey(chatId, gameNumber))
    THEN MapGet(dailySubmissions', GameKey(chatId, gameNumber))
    ELSE {}

ResultsAfter(chatId, player) ==
    IF MapHas(groupStats', chatId) /\ MapHas(MapGet(groupStats', chatId), player)
    THEN MapGet(MapGet(groupStats', chatId), player)
    ELSE <<>>

\* the handler i records its result in memory in this step: it comes to
\* the reaction
RecordsResult(i) ==
    /\ tasks'[i].pc = "react"
    /\ i \in DOMAIN tasks => tasks[i].pc # "react"

\* the handler i comes to the completion check in this step: its reply
\* has been sent
ChecksCompletion(i) == Waiting(i, "reply") /\ Len(sent'[i]) > Len(sent[i])

\* C36: the submitters of a chat and a game are a set that gains the
\* sender, while the result of every parsed submission, repeated or not,
\* is appended to the player's sequence and its row to the daily results;
\* and every handler that comes to the completion check with the
\* submitters at least as many as the member count starts the daily
\* leaderboard of the game and, no call failing, sends it.
C36_RepeatsNotDeduplicated ==
    [][\A i \in DOMAIN tasks' :
          (tasks'[i].kind = "message" /\ ~tasks'[i].result.isNull) =>
              LET chatId == tasks'[i].m.chatId
                  result == tasks'[i].result
                  player == result.player
                  game == result.gameNumber
              IN  /\ RecordsResult(i) =>
                        /\ SubmittersAfter(chatId, game) =
                              SubmittersOf(chatId, game) \cup {player}
                        /\ ResultsAfter(chatId, player) =
                              Append(ResultsOf(chatId, player), result)
                  /\ (Waiting(i, "saveAppend") /\ tasks'[i].pc = "saveReadResults") =>
                        db'.DailyResults = Append(db.DailyResults, DailyRow(result))
                  /\ (/\ ChecksCompletion(i)
                      /\ Cardinality(SubmittersOf(chatId, game)) >= groupMemberCount
                      /\ db.available) =>
                        tasks'[i].pc = "dailyRead" /\ tasks'[i].game = game
                  /\ (/\ Waiting(i, "dailyRead") /\ tasks'[i] # tasks[i]
                      /\ failures' = 0) =>
                        /\ tasks'[i].pc = "dailySend"
                        /\ tasks'[i].out.type = "daily"
                        /\ tasks'[i].out.gameNumber = game
                  /\ (/\ Waiting(i, "dailySend") /\ tasks'[i] # tasks[i]
                      /\ failures' = failures) =>
                        SentOfType(i, "daily")' # {}]_vars

\* two handlers of results of the same player for the same game have both
\* sent the daily leaderboard of a group of 2 with 2 submitters, and both
\* results and both rows are kept
C36_Witness ==
    \E i, j \in DOMAIN tasks :
        /\ i # j
        /\ HasParsed(i) /\ HasParsed(j)
        /\ tasks[i].m.chatId = tasks[j].m.chatId
        /\ tasks[i].result.player = tasks[j].result.player
        /\ tasks[i].result.gameNumber = tasks[j].result.gameNumber
        /\ SentOfType(i, "daily") # {} /\ SentOfType(j, "daily") # {}
        /\ groupMemberCount = 2
        /\ Cardinality(SubmittersOf(tasks[i].m.chatId,
                                    tasks[i].result.gameNumber)) = 2
        /\ Len(ResultsOf(tasks[i].m.chatId, tasks[i].result.player)) = 2
        /\ Len(SelectSeq(db.DailyResults,
                         LAMBDA row : /\ row.player = tasks[i].result.player
                                      /\ row.gameNumber =
                                            tasks[i].result.gameNumber)) = 2

\* the game numbers of the submissions recorded
RecordedGames ==
    UNION {UNION {{groupStats[c].value[p].value[k].gameNumber :
                      k \in DOMAIN groupStats[c].value[p].value} :
                  p \in DOMAIN groupStats[c].value} :
           c \in DOMAIN groupStats}

\* the handler i starts in this step on the daily command without a game
\* number, sent in the target group
StartsDailyCommand(i) ==
    /\ i \notin DOMAIN tasks
    /\ tasks'[i].m.text = DailyCommand
    /\ tasks'[i].m.chatId = targetGroupId

\* C38: the daily command without a game number is answered with "no
\* daily results" exactly when no submission has been recorded, and else
\* reads the daily leaderboard of the highest game number recorded,
\* whatever the form of the chat id.
C38_DailyOfLatestGame ==
    [][\A i \in DOMAIN tasks' :
          (StartsDailyCommand(i) /\ db.available) =>
              IF RecordedGames = {}
              THEN /\ tasks'[i].pc = "send"
                   /\ tasks'[i].out.type = "noDaily"
              ELSE /\ tasks'[i].pc = "dailyRead"
                   /\ \A game \in RecordedGames : tasks'[i].game >= game
                   /\ tasks'[i].game \in RecordedGames]_vars

(***************************************************************************)
(* Upsert events that carry several messages                               *)
(***************************************************************************)
\* the last message of the event handled instead of the first
UpsertLastMut(ms) == Deliver(ms[Len(ms)])

\* a messages.upsert event m with m.messages = ms: handleMessages reads
\* m.messages[0] and nothing else of the event
Upsert(ms) == Deliver(Head(ms))

\* a protocol message: message.message is missing
NoContentMessage ==
    [Message(TargetChat, FALSE, "Asha", <<>>) EXCEPT !.hasContent = FALSE]

\* events of one, two and three messages; Ravi's results come only after
\* the first message of an event
UpsertEvents ==
    { <<Message(TargetChat, FALSE, "Asha", SolvedText)>>,
      <<Message(TargetChat, FALSE, "Asha", SolvedText),
        Message(TargetChat, FALSE, "Ravi", SolvedText)>>,
      <<NoContentMessage, Message(TargetChat, FALSE, "Ravi", SolvedText)>>,
      <<Message(TargetChat, FALSE, "Asha", StatsCommand),
        Message(TargetChat, FALSE, "Ravi", FailedText),
        Message(TargetChat, FALSE, "Ravi", SolvedText)>> }

NextUpsert ==
    \/ \E ms \in UpsertEvents : Upsert(ms)
    \/ \E i \in DOMAIN tasks, ok \in BOOLEAN : GroupMetadataReturns(i, ok)
    \/ \E i \in DOMAIN tasks, ok \in BOOLEAN : MemberMetadataReturns(i, ok)
    \/ \E i \in DOMAIN tasks, ok \in BOOLEAN : MembersRead(i, ok)
    \/ \E i \in DOMAIN tasks, ok \in BOOLEAN : MembersWritten(i, ok)
    \/ \E i \in DOMAIN tasks, ok \in BOOLEAN : SaveAppended(i, ok)
    \/ \E i \in DOMAIN tasks, ok \in BOOLEAN : SaveReadResults(i, ok)
    \/ \E i \in DOMAIN tasks, ok \in BOOLEAN : SaveReadTotals(i, ok)
    \/ \E i \in DOMAIN tasks, ok \in BOOLEAN : SaveWroteTotals(i, ok)
    \/ \E i \in DOMAIN tasks, ok \in BOOLEAN : Reacted(i, ok)
    \/ \E i \in DOMAIN tasks, ok \in BOOLEAN : Replied(i, ok)
    \/ \E i \in DOMAIN tasks, ok \in BOOLEAN : DailyRead(i, ok)
    \/ \E i \in DOMAIN tasks, ok \in BOOLEAN : DailySent(i, ok)
    \/ \E i \in DOMAIN tasks, ok \in BOOLEAN : TotalRead(i, ok)
    \/ \E i \in DOMAIN tasks, ok \in BOOLEAN : TotalSent(i, ok)
    \/ \E i \in DOMAIN tasks, ok \in BOOLEAN : Sent(i, ok)
    \/ TimerFires

SpecUpsert == InitStarted /\ [][NextUpsert]_vars

\* the messages that come first in an event
FirstMessages == {Head(ms) : ms \in UpsertEvents}

\* nothing is recorded, written or sent for the messages that come after
\* the first: no result, submitter or row of their sender, a handler only
\* for first messages, and reactions and replies, at most one of each,
\* only from the handlers of first messages that are results
OnlyFirstHandled ==
    /\ ResultsOf(TargetChat, "Ravi") = <<>>
    /\ \A k \in DOMAIN dailySubmissions : "Ravi" \notin dailySubmissions[k].value
    /\ PlayerRows(db.DailyResults, "Ravi") = <<>>
    /\ PlayerRows(db.TotalScores, "Ravi") = <<>>
    /\ \A i \in MessageTasks :
          /\ tasks[i].m \in FirstMessages
          /\ Cardinality(SentOfType(i, "react")) <= 1
          /\ Cardinality(SentOfType(i, "reply")) <= 1
          /\ tasks[i].m.text # SolvedText =>
                SentOfType(i, "react") \cup SentOfType(i, "reply") = {}

\* C37: an event is handled through its first message only: the later
\* messages of an event, parseable results of the target group included,
\* cause no reaction, no reply, no store write and no change of the state
\* in memory; an event whose first message has no content changes
\* nothing at all.
C37_OnlyFirstMessage ==
    [][/\ OnlyFirstHandled'
       /\ \A i \in DOMAIN tasks' \ DOMAIN tasks :
             ~tasks'[i].m.hasContent =>
                 /\ tasks'[i].pc = "done"
                 /\ sent'[i] = <<>>
                 /\ UNCHANGED <<lastIndex, targetGroupId, groupMemberCount,
                                groupStats, dailySubmissions, db, timers>>]_vars

\* the three events of several messages have been handled: Asha's result
\* is recorded and answered, her request is answered, and the event
\* without content in its first message is finished
C37_Witness ==
    /\ ResultsOf(TargetChat, "Asha") # <<>>
    /\ \E i, j \in MessageTasks :
          /\ tasks[i].m = NoContentMessage /\ tasks[i].pc = "done"
          /\ tasks[j].m.text = SolvedText /\ SentOfType(j, "reply") # {}

\* C39: generateGameLeaderboard leaves the sequence it is given as it
\* was: the same results in the same order after the call as before it.
C39_BoardLeavesResults ==
    call.op = "generateGameLeaderboard" => call.argAfter = call.arg

====
